---- MODULE Spec2Model ----
(***************************************************************************)
(* FluidSim (src/src/FluidSim.ts): a FLIP/PIC particle-grid fluid solver.  *)
(*                                                                         *)
(* Numbers.  The program computes in IEEE floating point; the model        *)
(* computes on an integer lattice.                                         *)
(*   length   : 1 unit = h/20, so the cell size h is 20 units              *)
(*              (h = 10 px in src/src/App.tsx:31, 1 unit = 0.5 px);        *)
(*   time     : 1 tick = 0.04 s; dt and totalTime are whole ticks;         *)
(*   velocity : length units per tick, so x += u*dt is exact;              *)
(*   weights  : bilinear weights and densities in units of 1/(h*h) = 1/400.*)
(* Sums, differences and products are exact.  A quotient, a square root    *)
(* and a product with a decimal fraction are rounded to the nearest        *)
(* lattice value (RDiv), where the program rounds to the nearest float.    *)
(* Array indices are the program's (0-based); the particle list is a       *)
(* sequence, particle index i of the program is element i+1.               *)
(***************************************************************************)
EXTENDS Integers, Sequences, FiniteSets, TLC

VARIABLES
    fNumX, fNumY,        \* grid dimensions in cells
    cellType,            \* cell index -> AIR / SOLID
    u, v,                \* staggered face velocities
    du, dv,              \* pre-solve snapshot
    uNew, vNew,          \* allocated, only ever zero-filled
    uWeight, vWeight,    \* splat weight accumulators
    pDensity,            \* particle density per cell
    particles,           \* sequence of [x, y, u, v]
    totalTime,           \* wave generator clock
    pc,                  \* position inside integrate(): the phase to run next
    dtArg,               \* the dt argument of the integrate() call in progress
    trace,               \* phases executed by the current / last integrate() call
    iter,                \* solveIncompressibility: sweeps completed in this call
    calls,               \* number of public calls made so far
    last2,               \* history: the names of the last two public calls
    count0,              \* history: the particle count right after construction
    hist                 \* history of the integrate() call in progress, or of the
                         \* last one if no reset() followed it: the particle list
                         \* at entry, after the gravity and integration loop, and
                         \* after the separation pass

vars == <<fNumX, fNumY, cellType, u, v, du, dv, uNew, vNew, uWeight, vWeight,
          pDensity, particles, totalTime, pc, dtArg, trace, iter, calls, last2, count0, hist>>

grid == <<u, v, du, dv, uNew, vNew, uWeight, vWeight, pDensity>>

----------------------------------------------------------------------------
(* Bounds of the model and input sets *)

MaxCalls == 3

\* integrate(dt): dt in ticks
DtSet == {1, 2}

\* construct(width, height, spacing): canvas sizes in length units, spacing = h
CanvasSet == {<<80, 60>>, <<80, 80>>}

\* addExternalForce(x, y, vx, vy, radius)
ForcePoints == {<<40, 44>>}
ForceVels == {<<12, -30>>, <<0, 25>>}
ForceRadii == {30}

\* the separation pass on its own: grid of SepGridN x SepGridN cells, two particles
SepGridN == 5
SepBases == {<<0, 0>>, <<50, 50>>, <<39, 41>>, <<60, 19>>}
SepDists == {2, 4, 6, 8, 10, 12, 14, 16, 18}
SepOffsets ==
    {<<s * d, 0>> : s \in {-1, 1}, d \in SepDists}
        \cup {<<0, s * d>> : s \in {-1, 1}, d \in SepDists}
        \cup {<<sx * 6, sy * 8>> : sx \in {-1, 1}, sy \in {-1, 1}}
        \cup {<<sx * 8, sy * 6>> : sx \in {-1, 1}, sy \in {-1, 1}}

\* particle-to-grid transfer and PIC-only sampling on their own: a grid of
\* PicGridN x PicGridN cells, two particles with one common velocity
PicGridN == 6
PicPoints == {<<50, 50>>, <<70, 63>>, <<25, 50>>, <<50, 95>>, <<22, 22>>, <<64, 47>>}
PicVels == {<<3, -7>>, <<0, 8>>, <<-5, 0>>}

\* the pressure relaxation on its own, velocities in units of 1/10000 px/s: the
\* particles of construction, each with the velocity gravity * dt of one gravity
\* step (dt = 0.01 s and 0.02 s), on the canvases of RelaxCanvasSet
RelaxVels == {250000, 500000}
RelaxCanvasSet == {<<80, 80>>, <<100, 80>>}

\* new FluidSim(width, height, spacing): arguments in length units
CtorWidths == {-100, -10, 0, 10, 80, 100}
CtorHeights == {-80, 0, 10, 60}
CtorSpacings == {-20, 0, 20, 40}

\* addExternalForce on its own: two particles of FpPoints with velocities of
\* FpVels, pushed at a point of FpCentres with a velocity of ForceVels
FpPoints == {<<40, 40>>, <<52, 49>>, <<70, 40>>, <<40, 80>>}
FpVels == {<<0, 0>>, <<5, -3>>}
FpCentres == {<<40, 40>>, <<46, 48>>}
FpRadii == {10, 30, 100}

\* one cell visit of solveIncompressibility: square grids of VisitGrids cells per
\* axis, face velocities from the seeds of VisitSeeds, cell densities in steps of
\* VisitDensities (1/400 particle), at most VisitMax visits in a row
VisitGrids == {3, 4, 5}
VisitSeeds == {<<0, 0>>, <<7, 3>>, <<13, 1>>}
VisitDensities == {0, 6000}
VisitMax == 2

\* seeding: grids of SeedCols x SeedRows cells (canvas 40..69 by 30..49 and
\* 160..169 px at spacing 10)
SeedCols == {5, 6, 7}
SeedRows == {4, 5, 17}

\* three particles anywhere around a grid of CloudGridN cells per axis (domain
\* 0 .. 80): close pairs inside, on both sides of the left wall, left of the grid,
\* below the grid
CloudGridN == 4
CloudPoints == {<<-30, 30>>, <<-22, 30>>, <<-5, 30>>, <<5, 30>>, <<30, 30>>, <<38, 36>>,
                <<42, 30>>, <<30, 78>>, <<30, 90>>}
CloudVel == <<3, -7>>

\* one particle touching the grids: grids of StencilDims cells per axis, coordinates
\* of StencilCoords (length units; the domain ends at 40, 60 or 80), velocity
\* component StencilVal
StencilDims == {2, 3, 4}
StencilCoords == {-1000000, -1, 0, 7, 10, 29, 45, 80, 1000000}
StencilVal == 8

\* two simulators that differ in their grid arrays only: the arrays of the first
\* are filled from a seed of FirstSeeds, those of the second from one of
\* SecondSeeds (<<0, 0>>: freshly allocated arrays)
FirstSeeds == {<<7, 3>>, <<13, 1>>}
SecondSeeds == {<<0, 0>>, <<5, 11>>}

\* the water maze (WaterMazeSim): levels of MazeLevels, clicks at the world points
\* of MazeClicks (on and around the doors), at most MazeMaxClicks clicks
MazeLevels == {0, 1}
MazeClicks == {<<301, 198>>, <<313, 206>>, <<326, 205>>, <<338, 202>>, <<350, 210>>,
               <<102, 82>>, <<135, 86>>, <<302, 220>>}
MazeMaxClicks == 3

----------------------------------------------------------------------------
(* Program constants *)

FLUID == 0
AIR == 1
SOLID == 2

\* cell size, in length units
h == 20

\* 2500 px/s^2 = 8 units/tick^2
gravity == 8

\* overRelaxation 1.9, in tenths
overRelaxation10 == 19

\* waveAmp 400 px/s = 32 units/tick
waveAmp == 32

numIters == 30

\* restDensity 2.5, in weight units (2.5 * 400)
restDensity == 1000

kDensity == 1

\* flip ratio 0.95 passed by integrate, in percent
flipPercent == 95

----------------------------------------------------------------------------
(* Arithmetic on the lattice *)

\* a / b rounded to the nearest integer, ties away from zero (b > 0)
RDiv(a, b) ==
    IF a >= 0 THEN (2 * a + b) \div (2 * b)
              ELSE -((2 * (-a) + b) \div (2 * b))

Abs(a) == IF a < 0 THEN -a ELSE a

Max(a, b) == IF a > b THEN a ELSE b

Min(a, b) == IF a < b THEN a ELSE b

RECURSIVE ISqrtIn(_, _, _)
ISqrtIn(n, lo, hi) ==
    IF lo >= hi THEN lo
    ELSE LET mid == (lo + hi + 1) \div 2
         IN IF mid * mid <= n THEN ISqrtIn(n, mid, hi)
                              ELSE ISqrtIn(n, lo, mid - 1)

\* Math.sqrt(n) in hundredths: floor(100 * sqrt(n)), for 0 <= n <= 40000
Sqrt100(n) == ISqrtIn(10000 * n, 0, 20000)

\* 1000 * sin(0.04 * t) for t = 0 .. 12 ticks, rounded
SinTable == <<0, 40, 80, 120, 159, 199, 238, 276, 315, 352, 389, 426, 462>>

\* Math.sin(totalTime * waveFreq) in thousandths, waveFreq = 1.0
Sin1000(t) == SinTable[t + 1]

ZeroArray(n) == [k \in 0 .. n - 1 |-> 0]

----------------------------------------------------------------------------
(* Index helpers *)

getUIndex(i, j) == i + j * (fNumX + 1)

getVIndex(i, j) == i + j * fNumX

getCellIndex(i, j) == i + j * fNumX

----------------------------------------------------------------------------
(* Construction *)

\* fNumX / fNumY = floor(extent / spacing) + 1
GridCount(extent, spacing) == (extent \div spacing) + 1

\* mutant: the last row is tested against ny instead of ny - 1
initGrid_OpenTop(nx, ny) ==
    [c \in 0 .. nx * ny - 1 |->
        LET i == c % nx
            j == c \div nx
        IN IF i = 0 \/ i = nx - 1 \/ j = 0 \/ j = ny THEN SOLID ELSE AIR]

\* initGrid: the outer ring is SOLID, everything else AIR
initGrid(nx, ny) ==
    [c \in 0 .. nx * ny - 1 |->
        LET i == c % nx
            j == c \div nx
        IN IF i = 0 \/ i = nx - 1 \/ j = 0 \/ j = ny - 1 THEN SOLID ELSE AIR]

\* the values a loop "for (a = start; a < stop; a += step)" visits
RECURSIVE LoopVals(_, _, _)
LoopVals(start, stop, step) ==
    IF start < stop THEN <<start>> \o LoopVals(start + step, stop, step)
                    ELSE <<>>

\* particleSpacing = h * 0.85
particleSpacing == RDiv(h * 85, 100)

\* the un-jittered seed positions, in push order (x outer loop, y inner loop)
Lattice(nx, ny) ==
    LET startX == h * 2
        width == (nx - 4) * h
        height == RDiv((ny - 2) * h * 4, 10)
        maxH == (ny - 1) * h
        startY == maxH - height
        xs == LoopVals(startX, startX + width, particleSpacing)
        ys == LoopVals(startY, maxH, particleSpacing)
    IN [k \in 1 .. Len(xs) * Len(ys) |->
            <<xs[((k - 1) \div Len(ys)) + 1], ys[((k - 1) % Len(ys)) + 1]>>]

\* jitter = (Math.random() - 0.5) * (h * 0.1), a value in [-0.05h, 0.05h)
JitterSet == {j \in -h .. h : -h <= 20 * j /\ 20 * j < h}

Particle(x, y) == [x |-> x, y |-> y, u |-> 0, v |-> 0]

\* initParticles with the jitter draws jit[k] of the k-th push
initParticles(nx, ny, jit) ==
    LET L == Lattice(nx, ny)
    IN [k \in 1 .. Len(L) |-> Particle(L[k][1] + jit[k], L[k][2] + jit[k])]

JitterDraws(nx, ny) == [1 .. Len(Lattice(nx, ny)) -> JitterSet]

\* no integrate() call to remember
NoHist == [entry |-> <<>>, advected |-> <<>>, separated |-> <<>>]

Init ==
    \E cv \in CanvasSet : \E jit \in JitterDraws(GridCount(cv[1], h), GridCount(cv[2], h)) :
        LET nx == GridCount(cv[1], h)
            ny == GridCount(cv[2], h)
            uSize == (nx + 1) * ny
            vSize == nx * (ny + 1)
            cellSize == nx * ny
        IN /\ fNumX = nx
           /\ fNumY = ny
           /\ u = ZeroArray(uSize)
           /\ v = ZeroArray(vSize)
           /\ du = ZeroArray(uSize)
           /\ dv = ZeroArray(vSize)
           /\ uNew = ZeroArray(uSize)
           /\ vNew = ZeroArray(vSize)
           /\ uWeight = ZeroArray(uSize)
           /\ vWeight = ZeroArray(vSize)
           /\ pDensity = ZeroArray(cellSize)
           /\ cellType = initGrid(nx, ny)
           /\ particles = initParticles(nx, ny, jit)
           /\ totalTime = 0
           /\ pc = "idle"
           /\ dtArg = 0
           /\ trace = <<>>
           /\ iter = 0
           /\ calls = 0
           /\ last2 = <<>>
           /\ count0 = Len(initParticles(nx, ny, jit))
           /\ hist = NoHist

----------------------------------------------------------------------------
(* advectParticles, part 1: forces and integration *)

\* mutant: the position is advanced with the velocity of before the gravity update
AdvectOne_OldVelocity(p, dt) ==
    LET nv == p.v + gravity * dt
    IN [x |-> p.x + p.u * dt, y |-> p.y + p.v * dt, u |-> p.u, v |-> nv]

AdvectOne(p, dt) ==
    LET nv == p.v + gravity * dt
    IN [x |-> p.x + p.u * dt, y |-> p.y + nv * dt, u |-> p.u, v |-> nv]

\* mutant: the loop stops one particle short and the list is rebuilt
AdvectForces_DropLast(ps, dt) == [k \in 1 .. Len(ps) - 1 |-> AdvectOne(ps[k], dt)]

AdvectForces(ps, dt) == [k \in 1 .. Len(ps) |-> AdvectOne(ps[k], dt)]

----------------------------------------------------------------------------
(* separateParticles *)

\* Math.max(0, Math.min(n - 1, Math.floor(coord * invH)))
ClampedCell(coord, n) == Max(0, Min(n - 1, coord \div h))

\* mutant: the fill loop overwrites the bucket head and links nothing
RECURSIVE FillHash_NoLink(_, _, _, _)
FillHash_NoLink(ps, i, firstHead, nextParticle) ==
    IF i >= Len(ps) THEN [firstHead |-> firstHead, nextParticle |-> nextParticle]
    ELSE LET p == ps[i + 1]
             cIdx == ClampedCell(p.x, fNumX) + ClampedCell(p.y, fNumY) * fNumX
         IN FillHash_NoLink(ps, i + 1, [firstHead EXCEPT ![cIdx] = i], nextParticle)

\* the fill loop: particle i is pushed on the front of its bucket's chain
RECURSIVE FillHash(_, _, _, _)
FillHash(ps, i, firstHead, nextParticle) ==
    IF i >= Len(ps) THEN [firstHead |-> firstHead, nextParticle |-> nextParticle]
    ELSE LET p == ps[i + 1]
             cx == ClampedCell(p.x, fNumX)
             cy == ClampedCell(p.y, fNumY)
             cIdx == cx + cy * fNumX
         IN FillHash(ps, i + 1,
                     [firstHead EXCEPT ![cIdx] = i],
                     [nextParticle EXCEPT ![i] = firstHead[cIdx]])

BuildHash(ps) ==
    FillHash(ps, 0, [c \in 0 .. fNumX * fNumY - 1 |-> -1],
                    [i \in 0 .. Len(ps) - 1 |-> -1])

\* mutant: the correction is the whole overlap, not half of it
SepPair_FullForce(ps, i, n) ==
    LET p == ps[i + 1]
        pn == ps[n + 1]
        radius == h
        radiusSq == radius * radius
        dx == p.x - pn.x
        dy == p.y - pn.y
        distSq == dx * dx + dy * dy
    IN IF distSq < radiusSq /\ distSq > 0
       THEN LET dist100 == Sqrt100(distSq)
                overlap100 == 100 * radius - dist100
                fx == RDiv(dx * overlap100, dist100)
                fy == RDiv(dy * overlap100, dist100)
            IN [ps EXCEPT ![i + 1] = [p EXCEPT !.x = p.x + fx, !.y = p.y + fy],
                          ![n + 1] = [pn EXCEPT !.x = pn.x - fx, !.y = pn.y - fy]]
       ELSE ps

\* mutant: only the scanning particle is moved
SepPair_OneSided(ps, i, n) ==
    LET p == ps[i + 1]
        pn == ps[n + 1]
        radius == h
        dx == p.x - pn.x
        dy == p.y - pn.y
        distSq == dx * dx + dy * dy
    IN IF distSq < radius * radius /\ distSq > 0
       THEN LET dist100 == Sqrt100(distSq)
                overlap100 == 100 * radius - dist100
                fx == RDiv(dx * overlap100, 2 * dist100)
                fy == RDiv(dy * overlap100, 2 * dist100)
            IN [ps EXCEPT ![i + 1] = [p EXCEPT !.x = p.x + fx, !.y = p.y + fy]]
       ELSE ps

\* the correction of the pair (i, n) when i scans n
SepPair(ps, i, n) ==
    LET p == ps[i + 1]
        pn == ps[n + 1]
        radius == h
        radiusSq == radius * radius
        dx == p.x - pn.x
        dy == p.y - pn.y
        distSq == dx * dx + dy * dy
    IN IF distSq < radiusSq /\ distSq > 0
       THEN LET dist100 == Sqrt100(distSq)
                overlap100 == 100 * radius - dist100
                fx == RDiv(dx * overlap100, 2 * dist100)
                fy == RDiv(dy * overlap100, 2 * dist100)
            IN [ps EXCEPT ![i + 1] = [p EXCEPT !.x = p.x + fx, !.y = p.y + fy],
                          ![n + 1] = [pn EXCEPT !.x = pn.x - fx, !.y = pn.y - fy]]
       ELSE ps

\* while (neighborIdx !== -1) { ...; neighborIdx = nextParticle[neighborIdx] }
RECURSIVE SepChain(_, _, _, _)
SepChain(ps, i, neighborIdx, nextParticle) ==
    IF neighborIdx = -1 THEN ps
    ELSE SepChain(IF neighborIdx # i THEN SepPair(ps, i, neighborIdx) ELSE ps,
                  i, nextParticle[neighborIdx], nextParticle)

\* the 3x3 scan around (cx, cy): k = 0..8, nx outer loop, ny inner loop
RECURSIVE SepCells(_, _, _, _, _, _)
SepCells(ps, i, cx, cy, k, hash) ==
    IF k > 8 THEN ps
    ELSE LET nx == cx - 1 + (k \div 3)
             ny == cy - 1 + (k % 3)
         IN IF nx < 0 \/ nx >= fNumX \/ ny < 0 \/ ny >= fNumY
            THEN SepCells(ps, i, cx, cy, k + 1, hash)
            ELSE SepCells(SepChain(ps, i, hash.firstHead[nx + ny * fNumX],
                                   hash.nextParticle),
                          i, cx, cy, k + 1, hash)

RECURSIVE SepScan(_, _, _)
SepScan(ps, i, hash) ==
    IF i >= Len(ps) THEN ps
    ELSE LET p == ps[i + 1]
         IN SepScan(SepCells(ps, i, p.x \div h, p.y \div h, 0, hash), i + 1, hash)

\* one pass (for iter = 0; iter < 1) over the hash built from the entry positions
separateParticles(ps) == SepScan(ps, 0, BuildHash(ps))

----------------------------------------------------------------------------
(* advectParticles, part 3: wall collisions *)

\* buffer = h * 1.1
buffer == RDiv(h * 11, 10)

\* mutant: the floor test forgets the buffer
ClampOne_FloorNoBuffer(p) ==
    LET width == fNumX * h
        height == fNumY * h
        p1 == IF p.x < buffer THEN [p EXCEPT !.x = buffer, !.u = 0] ELSE p
        p2 == IF p1.x > width - buffer
              THEN [p1 EXCEPT !.x = width - buffer, !.u = 0] ELSE p1
        p3 == IF p2.y > height
              THEN [p2 EXCEPT !.y = height - buffer, !.v = 0] ELSE p2
        p4 == IF p3.y < buffer THEN [p3 EXCEPT !.y = buffer, !.v = 0] ELSE p3
    IN p4

ClampOne(p) ==
    LET width == fNumX * h
        height == fNumY * h
        p1 == IF p.x < buffer THEN [p EXCEPT !.x = buffer, !.u = 0] ELSE p
        p2 == IF p1.x > width - buffer
              THEN [p1 EXCEPT !.x = width - buffer, !.u = 0] ELSE p1
        p3 == IF p2.y > height - buffer
              THEN [p2 EXCEPT !.y = height - buffer, !.v = 0] ELSE p2
        p4 == IF p3.y < buffer THEN [p3 EXCEPT !.y = buffer, !.v = 0] ELSE p3
    IN p4

\* mutant: the floor clamp moves the particle and keeps its velocity
ClampWalls_FloorKeepsV(ps) ==
    [k \in 1 .. Len(ps) |->
        IF ps[k].y > fNumY * h - buffer
        THEN [ClampOne(ps[k]) EXCEPT !.v = ps[k].v]
        ELSE ClampOne(ps[k])]

ClampWalls(ps) == [k \in 1 .. Len(ps) |-> ClampOne(ps[k])]

----------------------------------------------------------------------------
(* Bilinear splat and sample.  ox2 / oy2 are twice the program's ox / oy   *)
(* (0 or 1 for 0.0 or 0.5); coordinates are kept in length units (gx * h). *)

\* Math.max(0, Math.min(x / h - ox, n - 2)), times h
\* mutant: the coordinate is clamped from above only
GridCoord_NoLowerClamp(x, ox2, n) == Min(x - (ox2 * h) \div 2, (n - 2) * h)

\* gx = x / h - ox, clamped to [0, cols - 2] (in length units)
GridCoord(x, ox2, n) == Max(0, Min(x - (ox2 * h) \div 2, (n - 2) * h))

\* the four array slots a point touches and their weights (in 1/(h*h))
Stencil(x, y, ox2, oy2, cols, rows) ==
    LET gx == GridCoord(x, ox2, cols)
        gy == GridCoord(y, oy2, rows)
        ix == gx \div h
        iy == gy \div h
        fx == gx - ix * h
        fy == gy - iy * h
        idx == ix + iy * cols
    IN [idx |-> idx, cols |-> cols,
        w00 |-> (h - fx) * (h - fy), w10 |-> fx * (h - fy),
        w01 |-> (h - fx) * fy, w11 |-> fx * fy]

\* grid[idx] += val * w00, grid[idx + 1] += val * w10, ...
Scatter(arr, st, val) ==
    [arr EXCEPT ![st.idx] = @ + val * st.w00,
                ![st.idx + 1] = @ + val * st.w10,
                ![st.idx + st.cols] = @ + val * st.w01,
                ![st.idx + st.cols + 1] = @ + val * st.w11]

\* splatToGrid: value and weight accumulators
splatToGrid(g, w, x, y, val, ox2, oy2, cols, rows) ==
    LET st == Stencil(x, y, ox2, oy2, cols, rows)
    IN [grid |-> Scatter(g, st, val), weight |-> Scatter(w, st, 1)]

\* mutant: the slot idx + cols + 1 is left out
splatToScalarGrid_ThreeSlots(g, x, y, val, ox2, oy2, cols, rows) ==
    Scatter(g, [Stencil(x, y, ox2, oy2, cols, rows) EXCEPT !.w11 = 0], val)

\* splatToScalarGrid with val = 1.0
splatToScalarGrid(g, x, y, val, ox2, oy2, cols, rows) ==
    Scatter(g, Stencil(x, y, ox2, oy2, cols, rows), val)

\* sampleGrid: the weighted sum, back on the velocity lattice
sampleGrid(g, x, y, ox2, oy2, cols, rows) ==
    LET st == Stencil(x, y, ox2, oy2, cols, rows)
    IN RDiv(g[st.idx] * st.w00 + g[st.idx + 1] * st.w10
            + g[st.idx + st.cols] * st.w01 + g[st.idx + st.cols + 1] * st.w11,
            h * h)

----------------------------------------------------------------------------
(* enforceBoundaries *)

SolidCell(i, j) == cellType[i + j * fNumX] = SOLID

\* u faces i and i+1 of row j belong to cell (i, j)
UFaceOfSolid(k) ==
    \E j \in 0 .. fNumY - 1 : \E i \in 0 .. fNumX - 1 :
        SolidCell(i, j) /\ k \in {i + j * (fNumX + 1), i + 1 + j * (fNumX + 1)}

\* v faces (i, j) and (i, j+1) belong to cell (i, j)
VFaceOfSolid(k) ==
    \E j \in 0 .. fNumY - 1 : \E i \in 0 .. fNumX - 1 :
        SolidCell(i, j) /\ k \in {i + j * fNumX, i + (j + 1) * fNumX}

\* mutant: only the left face of a solid cell is cleared
enforceBoundariesU_LeftOnly(uu) ==
    [k \in DOMAIN uu |->
        IF \E j \in 0 .. fNumY - 1 : \E i \in 0 .. fNumX - 1 :
              SolidCell(i, j) /\ k = i + j * (fNumX + 1)
        THEN 0 ELSE uu[k]]

enforceBoundariesU(uu) == [k \in DOMAIN uu |-> IF UFaceOfSolid(k) THEN 0 ELSE uu[k]]

enforceBoundariesV(vv) == [k \in DOMAIN vv |-> IF VFaceOfSolid(k) THEN 0 ELSE vv[k]]

----------------------------------------------------------------------------
(* transferParticlesToGrid and calculateParticleDensity *)

RECURSIVE SplatAllU(_, _, _)
SplatAllU(ps, k, acc) ==
    IF k > Len(ps) THEN acc
    ELSE SplatAllU(ps, k + 1,
                   splatToGrid(acc.grid, acc.weight, ps[k].x, ps[k].y, ps[k].u,
                               0, 1, fNumX + 1, fNumY))

RECURSIVE SplatAllV(_, _, _)
SplatAllV(ps, k, acc) ==
    IF k > Len(ps) THEN acc
    ELSE SplatAllV(ps, k + 1,
                   splatToGrid(acc.grid, acc.weight, ps[k].x, ps[k].y, ps[k].v,
                               1, 0, fNumX, fNumY + 1))

\* mutant: the accumulated sums are not divided by the weights
Normalize_Unweighted(g, w) == g

\* if (weight[i] > 0) grid[i] /= weight[i]
Normalize(g, w) == [k \in DOMAIN g |-> IF w[k] > 0 THEN RDiv(g[k], w[k]) ELSE g[k]]

\* u.fill(0); uWeight.fill(0); then the splat loop
AccumulateU(ps) ==
    SplatAllU(ps, 1, [grid |-> ZeroArray((fNumX + 1) * fNumY),
                      weight |-> ZeroArray((fNumX + 1) * fNumY)])

AccumulateV(ps) ==
    SplatAllV(ps, 1, [grid |-> ZeroArray(fNumX * (fNumY + 1)),
                      weight |-> ZeroArray(fNumX * (fNumY + 1))])

\* the face velocities after the division by the weights, before enforceBoundaries
NormalizedU(ps) == Normalize(AccumulateU(ps).grid, AccumulateU(ps).weight)

NormalizedV(ps) == Normalize(AccumulateV(ps).grid, AccumulateV(ps).weight)

transferParticlesToGrid(ps) ==
    [u |-> enforceBoundariesU(NormalizedU(ps)),
     v |-> enforceBoundariesV(NormalizedV(ps)),
     uWeight |-> AccumulateU(ps).weight,
     vWeight |-> AccumulateV(ps).weight]

RECURSIVE SplatAllDensity(_, _, _)
SplatAllDensity(ps, k, acc) ==
    IF k > Len(ps) THEN acc
    ELSE SplatAllDensity(ps, k + 1,
                         splatToScalarGrid(acc, ps[k].x, ps[k].y, 1, 1, 1, fNumX, fNumY))

\* mutant: the density field is accumulated on top of what it held
calculateParticleDensity_NoFill(ps) == SplatAllDensity(ps, 1, pDensity)

\* pDensity.fill(0); then one splat per particle
calculateParticleDensity(ps) == SplatAllDensity(ps, 1, ZeroArray(fNumX * fNumY))

----------------------------------------------------------------------------
(* Wave generator *)

\* uForce = waveAmp * Math.sin(totalTime * waveFreq)
uForce(t) == RDiv(waveAmp * Sin1000(t), 1000)

\* the rows "for (j = 1; j < paddleHeight; j++)" visits, paddleHeight = fNumY * 0.7
PaddleRows == {j \in 1 .. fNumY : 10 * j < 7 * fNumY}

PaddleFaces == {1 + j * (fNumX + 1) : j \in PaddleRows}

\* mutant: the time of the forcing leaves out the dt of the current call
WaveForcing_TimeBefore(uu, t) ==
    [k \in DOMAIN uu |-> IF k \in PaddleFaces THEN uForce(t - dtArg) ELSE uu[k]]

\* this.u[1 + j * (fNumX + 1)] = uForce for the rows of the paddle
WaveForcing(uu, t) == [k \in DOMAIN uu |-> IF k \in PaddleFaces THEN uForce(t) ELSE uu[k]]

----------------------------------------------------------------------------
(* solveIncompressibility *)

\* mutant: the left face is updated whatever the left neighbour is
SolveCell_NoLeftGate(uv, dens, i, j) ==
    LET cellIdx == i + j * fNumX
        idxU == i + j * (fNumX + 1)
        idxV == i + j * fNumX
        density == dens[cellIdx]
        \* kDensity * (density - restDensity) px/s; 1 velocity unit = 25/2 px/s
        targetDiv == IF density > restDensity
                     THEN RDiv(2 * kDensity * (density - restDensity), 25 * h * h) ELSE 0
        div == uv.u[idxU + 1] - uv.u[idxU] + (uv.v[idxV + fNumX] - uv.v[idxV]) - targetDiv
        sLeft == IF cellType[i - 1 + j * fNumX] = SOLID THEN 0 ELSE 1
        sRight == IF cellType[i + 1 + j * fNumX] = SOLID THEN 0 ELSE 1
        sBot == IF cellType[i + (j - 1) * fNumX] = SOLID THEN 0 ELSE 1
        sTop == IF cellType[i + (j + 1) * fNumX] = SOLID THEN 0 ELSE 1
        sTot == sLeft + sRight + sBot + sTop
        flux == RDiv(-(div * overRelaxation10), 10 * sTot)
        u1 == [uv.u EXCEPT ![idxU] = @ - flux]
        u2 == IF sRight = 1 THEN [u1 EXCEPT ![idxU + 1] = @ + flux] ELSE u1
        v1 == IF sBot = 1 THEN [uv.v EXCEPT ![idxV] = @ - flux] ELSE uv.v
        v2 == IF sTop = 1 THEN [v1 EXCEPT ![idxV + fNumX] = @ + flux] ELSE v1
    IN IF cellType[cellIdx] = SOLID THEN uv
       ELSE IF div = 0 THEN uv
       ELSE IF sTot = 0 THEN uv
       ELSE [u |-> u2, v |-> v2]

\* mutant: the flux is not over-relaxed
SolveCell_NoRelaxation(uv, dens, i, j) ==
    LET cellIdx == i + j * fNumX
        idxU == i + j * (fNumX + 1)
        idxV == i + j * fNumX
        density == dens[cellIdx]
        targetDiv == IF density > restDensity
                     THEN RDiv(2 * kDensity * (density - restDensity), 25 * h * h) ELSE 0
        div == uv.u[idxU + 1] - uv.u[idxU] + (uv.v[idxV + fNumX] - uv.v[idxV]) - targetDiv
        sLeft == IF cellType[i - 1 + j * fNumX] = SOLID THEN 0 ELSE 1
        sRight == IF cellType[i + 1 + j * fNumX] = SOLID THEN 0 ELSE 1
        sBot == IF cellType[i + (j - 1) * fNumX] = SOLID THEN 0 ELSE 1
        sTop == IF cellType[i + (j + 1) * fNumX] = SOLID THEN 0 ELSE 1
        sTot == sLeft + sRight + sBot + sTop
        flux == RDiv(-div, sTot)
        u1 == IF sLeft = 1 THEN [uv.u EXCEPT ![idxU] = @ - flux] ELSE uv.u
        u2 == IF sRight = 1 THEN [u1 EXCEPT ![idxU + 1] = @ + flux] ELSE u1
        v1 == IF sBot = 1 THEN [uv.v EXCEPT ![idxV] = @ - flux] ELSE uv.v
        v2 == IF sTop = 1 THEN [v1 EXCEPT ![idxV + fNumX] = @ + flux] ELSE v1
    IN IF cellType[cellIdx] = SOLID THEN uv
       ELSE IF div = 0 THEN uv
       ELSE IF sTot = 0 THEN uv
       ELSE [u |-> u2, v |-> v2]

\* one visit of cell (i, j); uv = [u, v]
SolveCell(uv, dens, i, j) ==
    LET cellIdx == i + j * fNumX
        idxU == i + j * (fNumX + 1)
        idxV == i + j * fNumX
        uLeft == uv.u[idxU]
        uRight == uv.u[idxU + 1]
        vBot == uv.v[idxV]
        vTop == uv.v[idxV + fNumX]
        density == dens[cellIdx]
        \* kDensity * (density - restDensity) px/s; 1 velocity unit = 25/2 px/s
        targetDiv == IF density > restDensity
                     THEN RDiv(2 * kDensity * (density - restDensity), 25 * h * h) ELSE 0
        div == uRight - uLeft + (vTop - vBot) - targetDiv
        sLeft == IF cellType[i - 1 + j * fNumX] = SOLID THEN 0 ELSE 1
        sRight == IF cellType[i + 1 + j * fNumX] = SOLID THEN 0 ELSE 1
        sBot == IF cellType[i + (j - 1) * fNumX] = SOLID THEN 0 ELSE 1
        sTop == IF cellType[i + (j + 1) * fNumX] = SOLID THEN 0 ELSE 1
        sTot == sLeft + sRight + sBot + sTop
        flux == RDiv(-(div * overRelaxation10), 10 * sTot)
        u1 == IF sLeft = 1 THEN [uv.u EXCEPT ![idxU] = @ - flux] ELSE uv.u
        u2 == IF sRight = 1 THEN [u1 EXCEPT ![idxU + 1] = @ + flux] ELSE u1
        v1 == IF sBot = 1 THEN [uv.v EXCEPT ![idxV] = @ - flux] ELSE uv.v
        v2 == IF sTop = 1 THEN [v1 EXCEPT ![idxV + fNumX] = @ + flux] ELSE v1
    IN IF cellType[cellIdx] = SOLID THEN uv
       ELSE IF div = 0 THEN uv
       ELSE IF sTot = 0 THEN uv
       ELSE [u |-> u2, v |-> v2]

\* one sweep: j = 1 .. fNumY-2 outer, i = 1 .. fNumX-2 inner; c counts the visits
RECURSIVE SolveSweep(_, _, _)
SolveSweep(uv, dens, c) ==
    IF c >= (fNumX - 2) * (fNumY - 2) THEN uv
    ELSE SolveSweep(SolveCell(uv, dens, 1 + (c % (fNumX - 2)), 1 + (c \div (fNumX - 2))),
                    dens, c + 1)

\* the body of "for (iter = 0; iter < numIters; iter++)": one sweep over the interior
solveSweep(uu, vv, dens) == SolveSweep([u |-> uu, v |-> vv], dens, 0)

----------------------------------------------------------------------------
(* transferGridToParticles *)

\* mutant: the two ratios are swapped
Blend_Swapped(a, b, flipRatio) == RDiv(b * flipRatio + a * (100 - flipRatio), 100)

\* a * flipRatio + b * (1 - flipRatio)
Blend(a, b, flipRatio) == RDiv(a * flipRatio + b * (100 - flipRatio), 100)

GridToParticle(p, flipRatio) ==
    LET uPIC == sampleGrid(u, p.x, p.y, 0, 1, fNumX + 1, fNumY)
        vPIC == sampleGrid(v, p.x, p.y, 1, 0, fNumX, fNumY + 1)
        uOld == sampleGrid(du, p.x, p.y, 0, 1, fNumX + 1, fNumY)
        vOld == sampleGrid(dv, p.x, p.y, 1, 0, fNumX, fNumY + 1)
        uFLIP == p.u + (uPIC - uOld)
        vFLIP == p.v + (vPIC - vOld)
    IN [p EXCEPT !.u = Blend(uFLIP, uPIC, flipRatio),
                 !.v = Blend(vFLIP, vPIC, flipRatio)]

transferGridToParticles(ps, flipRatio) ==
    [k \in 1 .. Len(ps) |-> GridToParticle(ps[k], flipRatio)]

----------------------------------------------------------------------------
(* addExternalForce *)

\* mutant: every particle inside the radius gets the whole (vx, vy)
ForceOne_NoFalloff(p, x, y, vx, vy, radius) ==
    LET dx == p.x - x
        dy == p.y - y
    IN IF dx * dx + dy * dy < radius * radius
       THEN [p EXCEPT !.u = p.u + vx, !.v = p.v + vy]
       ELSE p

ForceOne(p, x, y, vx, vy, radius) ==
    LET rSq == radius * radius
        dx == p.x - x
        dy == p.y - y
        distSq == dx * dx + dy * dy
    IN IF distSq < rSq
       THEN LET dist100 == Sqrt100(distSq)
                \* strength = 1.0 - Math.sqrt(distSq) / radius, times 100 * radius
                strength == 100 * radius - dist100
            IN [p EXCEPT !.u = p.u + RDiv(vx * strength, 100 * radius),
                         !.v = p.v + RDiv(vy * strength, 100 * radius)]
       ELSE p

addExternalForce(ps, x, y, vx, vy, radius) ==
    [k \in 1 .. Len(ps) |-> ForceOne(ps[k], x, y, vx, vy, radius)]

----------------------------------------------------------------------------
(* The operations.  integrate() is one uninterruptible call: while         *)
(* pc # "idle" only its next phase can run.                                *)

\* the order of the phases in integrate() and advectParticles()
PhaseOrder == <<"advect", "separate", "clamp", "transfer", "wave", "snapshot",
                "solve", "blend">>

\* mutant: the snapshot is taken after the pressure solve
NextPhase_SnapshotLate(ph) ==
    CASE ph = "wave" -> "solve"
      [] ph = "solve" -> "snapshot"
      [] ph = "snapshot" -> "blend"
      [] ph = "blend" -> "idle"
      [] OTHER -> LET k == CHOOSE n \in 1 .. Len(PhaseOrder) : PhaseOrder[n] = ph
                  IN PhaseOrder[k + 1]

\* the phase that follows phase ph, "idle" after the last one
NextPhase(ph) ==
    LET k == CHOOSE n \in 1 .. Len(PhaseOrder) : PhaseOrder[n] = ph
    IN IF k = Len(PhaseOrder) THEN "idle" ELSE PhaseOrder[k + 1]

\* the last two call names after one more call
Called(name) == IF last2 = <<>> THEN <<name>> ELSE <<last2[Len(last2)], name>>

Step(ph) ==
    /\ pc = ph
    /\ pc' = NextPhase(ph)
    /\ trace' = Append(trace, ph)
    /\ UNCHANGED <<fNumX, fNumY, cellType, uNew, vNew, dtArg, iter, calls, last2, count0>>

\* integrate(dt): totalTime += dt, then gravity and position integration
Integrate(dt) ==
    /\ pc = "idle"
    /\ calls < MaxCalls
    /\ pc' = NextPhase("advect")
    /\ trace' = <<"advect">>
    /\ dtArg' = dt
    /\ calls' = calls + 1
    /\ last2' = Called("integrate")
    /\ totalTime' = totalTime + dt
    /\ particles' = AdvectForces(particles, dt)
    /\ hist' = [entry |-> particles, advected |-> particles', separated |-> <<>>]
    /\ UNCHANGED <<fNumX, fNumY, cellType, grid, iter, count0>>

Separate ==
    /\ Step("separate")
    /\ particles' = separateParticles(particles)
    /\ hist' = [hist EXCEPT !.separated = particles']
    /\ UNCHANGED <<grid, totalTime>>

Clamp ==
    /\ Step("clamp")
    /\ particles' = ClampWalls(particles)
    /\ UNCHANGED <<grid, totalTime, hist>>

\* transferParticlesToGrid(); calculateParticleDensity()
Transfer ==
    /\ Step("transfer")
    /\ LET t == transferParticlesToGrid(particles)
       IN /\ u' = t.u
          /\ v' = t.v
          /\ uWeight' = t.uWeight
          /\ vWeight' = t.vWeight
    /\ pDensity' = calculateParticleDensity(particles)
    /\ UNCHANGED <<du, dv, particles, totalTime, hist>>

Wave ==
    /\ Step("wave")
    /\ u' = WaveForcing(u, totalTime)
    /\ UNCHANGED <<v, du, dv, uWeight, vWeight, pDensity, particles, totalTime, hist>>

\* du.set(u); dv.set(v); then solveIncompressibility() starts with iter = 0
Snapshot ==
    /\ Step("snapshot")
    /\ du' = u
    /\ dv' = v
    /\ UNCHANGED <<u, v, uWeight, vWeight, pDensity, particles, totalTime, hist>>

\* one relaxation sweep of solveIncompressibility()
SolveIter ==
    /\ pc = "solve"
    /\ iter < numIters
    /\ iter' = iter + 1
    /\ LET r == solveSweep(u, v, pDensity)
       IN /\ u' = r.u
          /\ v' = r.v
    /\ UNCHANGED <<fNumX, fNumY, cellType, du, dv, uNew, vNew, uWeight, vWeight,
                   pDensity, particles, totalTime, pc, dtArg, trace, calls, last2,
                   count0, hist>>

\* the sweep loop ends and solveIncompressibility() returns
SolveDone ==
    /\ pc = "solve"
    /\ iter >= numIters
    /\ pc' = NextPhase("solve")
    /\ trace' = Append(trace, "solve")
    /\ iter' = 0
    /\ UNCHANGED <<fNumX, fNumY, cellType, grid, particles, totalTime, dtArg,
                   calls, last2, count0, hist>>

BlendBack ==
    /\ Step("blend")
    /\ particles' = transferGridToParticles(particles, flipPercent)
    /\ UNCHANGED <<grid, totalTime, hist>>

AddExternalForce(x, y, vx, vy, radius) ==
    /\ pc = "idle"
    /\ calls < MaxCalls
    /\ calls' = calls + 1
    /\ last2' = Called("addExternalForce")
    /\ particles' = addExternalForce(particles, x, y, vx, vy, radius)
    /\ UNCHANGED <<fNumX, fNumY, cellType, grid, totalTime, pc, dtArg, trace, iter,
                   count0, hist>>

\* mutant: reset() leaves the pre-solve snapshot as it is
Reset_KeepSnapshot(jit) ==
    /\ pc = "idle"
    /\ calls < MaxCalls
    /\ calls' = calls + 1
    /\ last2' = Called("reset")
    /\ u' = ZeroArray((fNumX + 1) * fNumY)
    /\ v' = ZeroArray(fNumX * (fNumY + 1))
    /\ uWeight' = ZeroArray((fNumX + 1) * fNumY)
    /\ vWeight' = ZeroArray(fNumX * (fNumY + 1))
    /\ uNew' = ZeroArray((fNumX + 1) * fNumY)
    /\ vNew' = ZeroArray(fNumX * (fNumY + 1))
    /\ pDensity' = ZeroArray(fNumX * fNumY)
    /\ particles' = initParticles(fNumX, fNumY, jit)
    /\ hist' = NoHist
    /\ UNCHANGED <<fNumX, fNumY, cellType, du, dv, totalTime, pc, dtArg, trace, iter,
                   count0>>

\* reset(): zero-fill every grid array, then initParticles()
Reset(jit) ==
    /\ pc = "idle"
    /\ calls < MaxCalls
    /\ calls' = calls + 1
    /\ last2' = Called("reset")
    /\ u' = ZeroArray((fNumX + 1) * fNumY)
    /\ v' = ZeroArray(fNumX * (fNumY + 1))
    /\ uWeight' = ZeroArray((fNumX + 1) * fNumY)
    /\ vWeight' = ZeroArray(fNumX * (fNumY + 1))
    /\ uNew' = ZeroArray((fNumX + 1) * fNumY)
    /\ vNew' = ZeroArray(fNumX * (fNumY + 1))
    /\ du' = ZeroArray((fNumX + 1) * fNumY)
    /\ dv' = ZeroArray(fNumX * (fNumY + 1))
    /\ pDensity' = ZeroArray(fNumX * fNumY)
    /\ particles' = initParticles(fNumX, fNumY, jit)
    /\ hist' = NoHist
    /\ UNCHANGED <<fNumX, fNumY, cellType, totalTime, pc, dtArg, trace, iter, count0>>

Next ==
    \/ \E dt \in DtSet : Integrate(dt)
    \/ Separate
    \/ Clamp
    \/ Transfer
    \/ Wave
    \/ Snapshot
    \/ SolveIter
    \/ SolveDone
    \/ BlendBack
    \/ \E pt \in ForcePoints : \E vel \in ForceVels : \E r \in ForceRadii :
          AddExternalForce(pt[1], pt[2], vel[1], vel[2], r)
    \/ \E jit \in JitterDraws(fNumX, fNumY) : Reset(jit)

Spec == Init /\ [][Next]_vars

----------------------------------------------------------------------------
(* separateParticles() on two particles alone in the grid *)

InGrid(x, y, n) == 0 <= x /\ x < n * h /\ 0 <= y /\ y < n * h

\* the pairs the pass is applied to: both particles in the grid, closer than h, at a
\* whole distance whose correction falls on the lattice
SepInputs ==
    {in \in SepBases \X SepOffsets :
        InGrid(in[1][1] + in[2][1], in[1][2] + in[2][2], SepGridN)}

InitSep ==
    \E in \in SepInputs :
        LET n == SepGridN
        IN /\ fNumX = n
           /\ fNumY = n
           /\ u = ZeroArray((n + 1) * n)
           /\ v = ZeroArray(n * (n + 1))
           /\ du = ZeroArray((n + 1) * n)
           /\ dv = ZeroArray(n * (n + 1))
           /\ uNew = ZeroArray((n + 1) * n)
           /\ vNew = ZeroArray(n * (n + 1))
           /\ uWeight = ZeroArray((n + 1) * n)
           /\ vWeight = ZeroArray(n * (n + 1))
           /\ pDensity = ZeroArray(n * n)
           /\ cellType = initGrid(n, n)
           /\ particles = <<Particle(in[1][1], in[1][2]),
                            Particle(in[1][1] + in[2][1], in[1][2] + in[2][2])>>
           /\ totalTime = 0
           /\ pc = "idle"
           /\ dtArg = 0
           /\ trace = <<>>
           /\ iter = 0
           /\ calls = 0
           /\ last2 = <<>>
           /\ count0 = 2
           /\ hist = NoHist

\* one call of separateParticles()
SeparatePass ==
    /\ pc = "idle"
    /\ calls = 0
    /\ calls' = calls + 1
    /\ last2' = Called("separateParticles")
    /\ particles' = separateParticles(particles)
    /\ hist' = [entry |-> particles, advected |-> <<>>, separated |-> particles']
    /\ UNCHANGED <<fNumX, fNumY, cellType, grid, totalTime, pc, dtArg, trace, iter,
                   count0>>

NextSep == SeparatePass

SpecSep == InitSep /\ [][NextSep]_vars

----------------------------------------------------------------------------
(* transferParticlesToGrid() followed by transferGridToParticles(0) *)

\* a simulator of nx x ny cells with empty grid arrays that holds the particles ps
Constructed(nx, ny, ps) ==
    /\ fNumX = nx
    /\ fNumY = ny
    /\ u = ZeroArray((nx + 1) * ny)
    /\ v = ZeroArray(nx * (ny + 1))
    /\ du = ZeroArray((nx + 1) * ny)
    /\ dv = ZeroArray(nx * (ny + 1))
    /\ uNew = ZeroArray((nx + 1) * ny)
    /\ vNew = ZeroArray(nx * (ny + 1))
    /\ uWeight = ZeroArray((nx + 1) * ny)
    /\ vWeight = ZeroArray(nx * (ny + 1))
    /\ pDensity = ZeroArray(nx * ny)
    /\ cellType = initGrid(nx, ny)
    /\ particles = ps
    /\ totalTime = 0
    /\ dtArg = 0
    /\ iter = 0
    /\ calls = 0
    /\ last2 = <<>>
    /\ count0 = Len(ps)

Moving(pt, vel) == [x |-> pt[1], y |-> pt[2], u |-> vel[1], v |-> vel[2]]

InitPic ==
    \E a \in PicPoints : \E b \in PicPoints \ {a} : \E c \in PicVels :
        /\ Constructed(PicGridN, PicGridN, <<Moving(a, c), Moving(b, c)>>)
        /\ pc = "transfer"
        /\ trace = <<>>
        /\ hist = [entry |-> <<Moving(a, c), Moving(b, c)>>, advected |-> <<>>,
                   separated |-> <<>>]

\* transferGridToParticles(0.0): PIC only
PicSample ==
    /\ pc = "wave"
    /\ pc' = "idle"
    /\ trace' = Append(trace, "pic")
    /\ particles' = transferGridToParticles(particles, 0)
    /\ UNCHANGED <<fNumX, fNumY, cellType, grid, totalTime, dtArg, iter, calls, last2,
                   count0, hist>>

NextPic == Transfer \/ PicSample

SpecPic == InitPic /\ [][NextPic]_vars

----------------------------------------------------------------------------
(* solveIncompressibility() on a grid that only gravity has set in motion: *)
(* no paddle forcing, no external force                                    *)

Falling(ps, c) == [k \in 1 .. Len(ps) |-> [ps[k] EXCEPT !.v = c]]

InitRelax ==
    \E cv \in RelaxCanvasSet : \E c \in RelaxVels :
      \E jit \in JitterDraws(GridCount(cv[1], h), GridCount(cv[2], h)) :
        LET nx == GridCount(cv[1], h)
            ny == GridCount(cv[2], h)
        IN /\ Constructed(nx, ny, Falling(initParticles(nx, ny, jit), c))
           /\ pc = "transfer"
           /\ trace = <<>>
           /\ hist = NoHist

\* transferParticlesToGrid(); calculateParticleDensity(); then straight to
\* solveIncompressibility(), the paddle loop left out
TransferUnforced ==
    /\ pc = "transfer"
    /\ pc' = "solve"
    /\ trace' = Append(trace, "transfer")
    /\ LET t == transferParticlesToGrid(particles)
       IN /\ u' = t.u
          /\ v' = t.v
          /\ du' = t.u
          /\ dv' = t.v
          /\ uWeight' = t.uWeight
          /\ vWeight' = t.vWeight
    /\ pDensity' = calculateParticleDensity(particles)
    /\ UNCHANGED <<fNumX, fNumY, cellType, uNew, vNew, particles, totalTime, dtArg,
                   iter, calls, last2, count0, hist>>

NextRelax == TransferUnforced \/ SolveIter \/ SolveDone

SpecRelax == InitRelax /\ [][NextRelax]_vars

----------------------------------------------------------------------------
(* new FluidSim(width, height, spacing) for any arguments *)

\* Math.floor(a / b) for b # 0
FloorDiv(a, b) == IF b > 0 THEN a \div b ELSE (-a) \div (-b)

\* Math.floor(extent / spacing) + 1; a division by 0 gives an infinity, 0 / 0 gives NaN
CtorCount(extent, spacing) ==
    IF spacing # 0 THEN [kind |-> "int", n |-> FloorDiv(extent, spacing) + 1]
    ELSE IF extent = 0 THEN [kind |-> "NaN", n |-> 0]
    ELSE [kind |-> "Infinity", n |-> IF extent > 0 THEN 1 ELSE -1]

\* the length a * b handed to "new Float32Array": a product with NaN is NaN
ArrayLength(a, da, b, db) ==
    IF a.kind = "NaN" \/ b.kind = "NaN" THEN [kind |-> "NaN", n |-> 0]
    ELSE IF a.kind = "Infinity" \/ b.kind = "Infinity"
    THEN [kind |-> "Infinity", n |-> 1]
    ELSE [kind |-> "int", n |-> (a.n + da) * (b.n + db)]

\* a typed array of length NaN is empty; an infinite or negative length is a RangeError
Allocates(len) == len.kind = "NaN" \/ (len.kind = "int" /\ len.n >= 0)

AllocatedLength(len) == IF len.kind = "int" THEN len.n ELSE 0

\* the seed positions of initParticles for cell size sp > 0
SeedPositions(nx, ny, sp) ==
    LET startX == sp * 2
        width == (nx - 4) * sp
        height == RDiv((ny - 2) * sp * 4, 10)
        maxH == (ny - 1) * sp
        startY == maxH - height
        step == RDiv(sp * 85, 100)
        xs == LoopVals(startX, startX + width, step)
        ys == LoopVals(startY, maxH, step)
    IN [k \in 1 .. Len(xs) * Len(ys) |->
            <<xs[((k - 1) \div Len(ys)) + 1], ys[((k - 1) % Len(ys)) + 1]>>]

\* jitter = (Math.random() - 0.5) * (sp * 0.1)
JitterOf(sp) == {j \in -sp .. sp : -sp <= 20 * j /\ 20 * j < sp}

\* what the constructor does with (width, height, spacing): the outcome and, when it
\* returns, the dimensions, the array lengths and the seed positions
construct(width, height, spacing) ==
    LET nx == CtorCount(width, spacing)
        ny == CtorCount(height, spacing)
        uSize == ArrayLength(nx, 1, ny, 0)
        vSize == ArrayLength(nx, 0, ny, 1)
        cellSize == ArrayLength(nx, 0, ny, 0)
        ints == nx.kind = "int" /\ ny.kind = "int"
        \* the x loop of initParticles is entered: startX < startX + width
        xLoop == ints /\ (nx.n - 4) * spacing > 0
        seeds == IF xLoop /\ spacing > 0 THEN SeedPositions(nx.n, ny.n, spacing) ELSE <<>>
        \* the i loop of initGrid runs to fNumX = +Infinity
        iLoop == nx.kind = "Infinity" /\ nx.n > 0
        name(c) == IF c.kind = "int" THEN c.n
                   ELSE IF c.kind = "Infinity" /\ c.n < 0 THEN "-Infinity" ELSE c.kind
    IN IF ~(Allocates(uSize) /\ Allocates(vSize) /\ Allocates(cellSize))
       THEN [outcome |-> "RangeError"]
       ELSE IF iLoop \/ (xLoop /\ spacing < 0)
       THEN [outcome |-> "no return"]
       ELSE [outcome |-> "returned",
             fNumX |-> name(nx),
             fNumY |-> name(ny),
             uSize |-> AllocatedLength(uSize),
             vSize |-> AllocatedLength(vSize),
             cellSize |-> AllocatedLength(cellSize),
             ring |-> ints /\ nx.n > 0 /\ ny.n > 0,
             seeds |-> seeds]

\* no simulator yet: the call new FluidSim(hist.width, hist.height, hist.spacing)
\* is about to be made
InitCtor ==
    \E w \in CtorWidths : \E ht \in CtorHeights : \E sp \in CtorSpacings :
        /\ hist = [width |-> w, height |-> ht, spacing |-> sp]
        /\ pc = "new"
        /\ fNumX = 0 /\ fNumY = 0
        /\ cellType = <<>>
        /\ u = <<>> /\ v = <<>> /\ du = <<>> /\ dv = <<>>
        /\ uNew = <<>> /\ vNew = <<>> /\ uWeight = <<>> /\ vWeight = <<>>
        /\ pDensity = <<>>
        /\ particles = <<>>
        /\ totalTime = 0 /\ dtArg = 0 /\ iter = 0 /\ calls = 0
        /\ trace = <<>> /\ last2 = <<>> /\ count0 = 0

CtorFrame == UNCHANGED <<totalTime, dtArg, iter, trace, count0, hist>>

\* the constructor returns a simulator
ConstructReturns ==
    /\ pc = "new"
    /\ LET r == construct(hist.width, hist.height, hist.spacing)
       IN /\ r.outcome = "returned"
          /\ pc' = "idle"
          /\ fNumX' = r.fNumX
          /\ fNumY' = r.fNumY
          /\ u' = ZeroArray(r.uSize) /\ du' = ZeroArray(r.uSize)
          /\ uNew' = ZeroArray(r.uSize) /\ uWeight' = ZeroArray(r.uSize)
          /\ v' = ZeroArray(r.vSize) /\ dv' = ZeroArray(r.vSize)
          /\ vNew' = ZeroArray(r.vSize) /\ vWeight' = ZeroArray(r.vSize)
          /\ pDensity' = ZeroArray(r.cellSize)
          /\ cellType' = IF r.ring THEN initGrid(r.fNumX, r.fNumY)
                                   ELSE ZeroArray(r.cellSize)
          /\ \E jit \in [1 .. Len(r.seeds) -> JitterOf(hist.spacing)] :
                particles' = [k \in 1 .. Len(r.seeds) |->
                                 Particle(r.seeds[k][1] + jit[k], r.seeds[k][2] + jit[k])]
    /\ calls' = calls + 1
    /\ last2' = <<"constructor">>
    /\ CtorFrame

\* "new Float32Array(length)" throws, no simulator is returned
ConstructThrows ==
    /\ pc = "new"
    /\ construct(hist.width, hist.height, hist.spacing).outcome = "RangeError"
    /\ pc' = "RangeError"
    /\ calls' = calls + 1
    /\ last2' = <<"constructor">>
    /\ UNCHANGED <<fNumX, fNumY, cellType, grid, particles>>
    /\ CtorFrame

\* a loop never ends: the x loop of initParticles with a negative step, or the i loop
\* of initGrid with fNumX = +Infinity
ConstructHangs ==
    /\ pc = "new"
    /\ construct(hist.width, hist.height, hist.spacing).outcome = "no return"
    /\ pc' = "no return"
    /\ calls' = calls + 1
    /\ last2' = <<"constructor">>
    /\ UNCHANGED <<fNumX, fNumY, cellType, grid, particles>>
    /\ CtorFrame

NextCtor == ConstructReturns \/ ConstructThrows \/ ConstructHangs

SpecCtor == InitCtor /\ [][NextCtor]_vars

----------------------------------------------------------------------------
(* addExternalForce(x, y, vx, vy, radius) on two particles *)

InitForce ==
    \E a \in FpPoints : \E b \in FpPoints \ {a} : \E va \in FpVels : \E vb \in FpVels :
        /\ Constructed(5, 5, <<Moving(a, va), Moving(b, vb)>>)
        /\ pc = "idle"
        /\ trace = <<>>
        /\ hist = NoHist

\* one call; the history keeps the particles before it and the arguments
ForceCall(x, y, vx, vy, radius) ==
    /\ pc = "idle"
    /\ calls = 0
    /\ calls' = calls + 1
    /\ last2' = Called("addExternalForce")
    /\ particles' = addExternalForce(particles, x, y, vx, vy, radius)
    /\ hist' = [entry |-> particles, x |-> x, y |-> y, vx |-> vx, vy |-> vy,
                radius |-> radius]
    /\ UNCHANGED <<fNumX, fNumY, cellType, grid, totalTime, pc, dtArg, trace, iter,
                   count0>>

NextForce ==
    \E c \in FpCentres : \E vel \in ForceVels : \E r \in FpRadii :
        ForceCall(c[1], c[2], vel[1], vel[2], r)

SpecForce == InitForce /\ [][NextForce]_vars

----------------------------------------------------------------------------
(* One cell visit of solveIncompressibility on arbitrary grid contents      *)

\* face velocities in -20 .. 20 units, a different one on every face
FieldPattern(seed, n) == [k \in 0 .. n - 1 |-> ((seed[1] * k + seed[2] * k * k) % 41) - 20]

\* the zero seed gives the field at rest
Field(seed, n) == IF seed = <<0, 0>> THEN ZeroArray(n) ELSE FieldPattern(seed, n)

DensityPattern(d, n) == [c \in 0 .. n - 1 |-> d * (c % 3)]

InitVisit ==
    \E n \in VisitGrids : \E su \in VisitSeeds : \E sv \in VisitSeeds :
    \E d \in VisitDensities :
        /\ fNumX = n
        /\ fNumY = n
        /\ cellType = initGrid(n, n)
        /\ u = Field(su, (n + 1) * n)
        /\ v = Field(<<sv[2], sv[1]>>, n * (n + 1))
        /\ du = ZeroArray((n + 1) * n)
        /\ dv = ZeroArray(n * (n + 1))
        /\ uNew = ZeroArray((n + 1) * n)
        /\ vNew = ZeroArray(n * (n + 1))
        /\ uWeight = ZeroArray((n + 1) * n)
        /\ vWeight = ZeroArray(n * (n + 1))
        /\ pDensity = DensityPattern(d, n * n)
        /\ particles = <<>>
        /\ totalTime = 0 /\ dtArg = 0 /\ iter = 0 /\ calls = 0 /\ count0 = 0
        /\ last2 = <<>> /\ trace = <<>>
        /\ pc = "solve"
        /\ hist = [i |-> 0, j |-> 0, u |-> <<>>, v |-> <<>>]

\* the loop body for cell (i, j); the history keeps the cell and the faces before
VisitCell(i, j) ==
    /\ pc = "solve"
    /\ iter < VisitMax
    /\ iter' = iter + 1
    /\ LET r == SolveCell([u |-> u, v |-> v], pDensity, i, j)
       IN /\ u' = r.u
          /\ v' = r.v
    /\ hist' = [i |-> i, j |-> j, u |-> u, v |-> v]
    /\ UNCHANGED <<fNumX, fNumY, cellType, du, dv, uNew, vNew, uWeight, vWeight,
                   pDensity, particles, totalTime, pc, dtArg, trace, calls, last2,
                   count0>>

NextVisit == \E i \in 1 .. fNumX - 2 : \E j \in 1 .. fNumY - 2 : VisitCell(i, j)

SpecVisit == InitVisit /\ [][NextVisit]_vars

----------------------------------------------------------------------------
(* integrate(dt) on two simulators that agree on particles, time and dt but *)
(* hold different grid arrays.  The second simulator runs after the first:  *)
(* the history keeps the outcome of the first.                              *)

GarbageDensity(seed, n) == [c \in 0 .. n - 1 |-> 400 * (Field(seed, n)[c] + 20)]

InitRerun ==
    \E cv \in CanvasSet : \E jit \in JitterDraws(GridCount(cv[1], h), GridCount(cv[2], h)) :
    \E seed \in FirstSeeds :
        LET nx == GridCount(cv[1], h)
            ny == GridCount(cv[2], h)
            uSize == (nx + 1) * ny
            vSize == nx * (ny + 1)
        IN /\ fNumX = nx
           /\ fNumY = ny
           /\ u = Field(seed, uSize)
           /\ v = Field(<<seed[2], seed[1]>>, vSize)
           /\ du = Field(<<seed[2], seed[1]>>, uSize)
           /\ dv = Field(seed, vSize)
           /\ uNew = ZeroArray(uSize)
           /\ vNew = ZeroArray(vSize)
           /\ uWeight = GarbageDensity(seed, uSize)
           /\ vWeight = GarbageDensity(seed, vSize)
           /\ pDensity = GarbageDensity(seed, nx * ny)
           /\ cellType = initGrid(nx, ny)
           /\ particles = initParticles(nx, ny, jit)
           /\ totalTime = 0
           /\ pc = "idle"
           /\ dtArg = 0
           /\ trace = <<>>
           /\ iter = 0
           /\ calls = 0
           /\ last2 = <<>>
           /\ count0 = Len(initParticles(nx, ny, jit))
           /\ hist = NoHist

\* the second simulator: the particles and the time the first one had at the entry
\* of its integrate(dt), other grid arrays; its integrate(dt) starts (totalTime += dt
\* gives the time the first one has now)
SecondIntegrate(seed) ==
    /\ pc = "idle"
    /\ last2 # <<>> /\ last2[Len(last2)] = "integrate"
    /\ "first" \notin DOMAIN hist
    /\ pc' = NextPhase("advect")
    /\ trace' = <<"advect">>
    /\ u' = Field(seed, (fNumX + 1) * fNumY)
    /\ v' = Field(<<seed[2], seed[1]>>, fNumX * (fNumY + 1))
    /\ du' = Field(<<seed[2], seed[1]>>, (fNumX + 1) * fNumY)
    /\ dv' = Field(seed, fNumX * (fNumY + 1))
    /\ uWeight' = GarbageDensity(seed, (fNumX + 1) * fNumY)
    /\ vWeight' = GarbageDensity(seed, fNumX * (fNumY + 1))
    /\ pDensity' = GarbageDensity(seed, fNumX * fNumY)
    /\ particles' = AdvectForces(hist.entry, dtArg)
    /\ hist' = [entry |-> hist.entry, advected |-> particles', separated |-> <<>>,
                seed |-> seed,
                first |-> [particles |-> particles, u |-> u, v |-> v, du |-> du,
                           dv |-> dv, uWeight |-> uWeight, vWeight |-> vWeight,
                           pDensity |-> pDensity]]
    /\ UNCHANGED <<fNumX, fNumY, cellType, uNew, vNew, totalTime, dtArg, iter, calls,
                   last2, count0>>

NextRerun ==
    \/ \E dt \in DtSet : Integrate(dt)
    \/ Separate
    \/ Clamp
    \/ Transfer
    \/ Wave
    \/ Snapshot
    \/ SolveIter
    \/ SolveDone
    \/ BlendBack
    \/ \E seed \in SecondSeeds : SecondIntegrate(seed)

SpecRerun == InitRerun /\ [][NextRerun]_vars

----------------------------------------------------------------------------
(* Seeding: construction and reset() on grids of several sizes               *)

\* jitter draws: the same draw for every particle, or alternating draws
SeedJitters(nx, ny) ==
    {[k \in 1 .. Len(Lattice(nx, ny)) |-> a] : a \in JitterSet}
        \cup {[k \in 1 .. Len(Lattice(nx, ny)) |-> -((k + a) % 2)] : a \in {0, 1}}

InitSeed ==
    \E nx \in SeedCols : \E ny \in SeedRows : \E jit \in SeedJitters(nx, ny) :
        /\ Constructed(nx, ny, initParticles(nx, ny, jit))
        /\ pc = "idle"
        /\ trace = <<>>
        /\ hist = NoHist

NextSeed == \E jit \in SeedJitters(fNumX, fNumY) : Reset(jit)

SpecSeed == InitSeed /\ [][NextSeed]_vars

----------------------------------------------------------------------------
(* The render loop of the fluid page: one callback of requestAnimationFrame  *)
(* per frame.  pc tells whether a callback is pending, calls counts the      *)
(* frames run, totalTime counts the integrate() calls, and the history keeps *)
(* mouseRef and how the last frame ended.  Whether the ten integrate() calls *)
(* of a frame leave a NaN coordinate is decided by floating-point arithmetic *)
(* outside the lattice: it is an input of the frame.                         *)

RenderMaxFrames == 5

\* const subSteps = 10
subSteps == 10

\* canvas positions of the mouse events, in px
RenderMouse == {<<100, 100>>, <<120, 100>>, <<100, 140>>}

\* mouseRef at mount
MouseAtRest == [x |-> 0, y |-> 0, isDown |-> FALSE, prevX |-> 0, prevY |-> 0]

\* handleMouseMove
handleMouseMove(m, pt) ==
    [m EXCEPT !.prevX = IF m.isDown THEN @ ELSE pt[1],
              !.prevY = IF m.isDown THEN @ ELSE pt[2],
              !.x = pt[1], !.y = pt[2]]

\* handleMouseDown: isDown = true, handleMouseMove(e), prev = current
handleMouseDown(m, pt) ==
    LET moved == handleMouseMove([m EXCEPT !.isDown = TRUE], pt)
    IN [moved EXCEPT !.prevX = moved.x, !.prevY = moved.y]

\* the effect: the simulator is constructed and the first callback requested
InitRender ==
    /\ Constructed(3, 3, <<>>)
    /\ pc = "scheduled"
    /\ trace = <<>>
    /\ hist = [mouse |-> MouseAtRest, frame |-> "none", force |-> <<>>]

\* render(): ten integrate() calls, the splash while the mouse is down, then
\* the drawing loop.  A NaN coordinate makes the loop call reset() and return
\* before the requestAnimationFrame(render) that ends the function.
RenderFrame(nan) ==
    /\ pc = "scheduled"
    /\ calls < RenderMaxFrames
    /\ calls' = calls + 1
    /\ totalTime' = totalTime + subSteps
    /\ LET m == hist.mouse
           splash == IF m.isDown
                     THEN <<m.x, m.y, (m.x - m.prevX) * 5, (m.y - m.prevY) * 5, 50>>
                     ELSE hist.force
           after == IF m.isDown THEN [m EXCEPT !.prevX = m.x, !.prevY = m.y] ELSE m
       IN hist' = [mouse |-> after, force |-> splash,
                   frame |-> IF nan THEN "reset" ELSE "drawn"]
    /\ last2' = IF nan THEN Called("reset") ELSE Called("integrate")
    /\ pc' = IF nan THEN "stopped" ELSE "scheduled"
    /\ UNCHANGED <<fNumX, fNumY, cellType, grid, particles, dtArg, trace, iter, count0>>

MouseMove(pt) ==
    /\ hist' = [hist EXCEPT !.mouse = handleMouseMove(@, pt)]
    /\ UNCHANGED <<fNumX, fNumY, cellType, grid, particles, totalTime, pc, dtArg, trace,
                   iter, calls, last2, count0>>

MouseDown(pt) ==
    /\ hist' = [hist EXCEPT !.mouse = handleMouseDown(@, pt)]
    /\ UNCHANGED <<fNumX, fNumY, cellType, grid, particles, totalTime, pc, dtArg, trace,
                   iter, calls, last2, count0>>

\* handleMouseUp, also bound to the mouse leaving the canvas
MouseUp ==
    /\ hist' = [hist EXCEPT !.mouse.isDown = FALSE]
    /\ UNCHANGED <<fNumX, fNumY, cellType, grid, particles, totalTime, pc, dtArg, trace,
                   iter, calls, last2, count0>>

NextRender ==
    \/ \E nan \in BOOLEAN : RenderFrame(nan)
    \/ \E pt \in RenderMouse : MouseMove(pt)
    \/ \E pt \in RenderMouse : MouseDown(pt)
    \/ MouseUp

SpecRender == InitRender /\ [][NextRender]_vars

----------------------------------------------------------------------------
(* The water-maze page: its level, gameOver and bucketFill state, the ref    *)
(* isGameOverTriggered, and the simulator's levelIndex, isGameOver and       *)
(* bucketFillCount.  The count an update() call arrives at depends on the    *)
(* water in the grid: here it is an input of the frame.  calls counts the    *)
(* frames.                                                                   *)

PageMaxFrames == 6

\* if (level < 3) in handleNextLevel: the index of the last level
LastLevel == 3

\* the threshold of the win condition
FullBucket == 200

\* values of bucketFillCount at the end of update()
PageFills == {0, 150, 201, 260}

\* mount: level 0, the effect constructs the simulator and requests animate
InitPage ==
    /\ Constructed(3, 3, <<>>)
    /\ pc = "animating"
    /\ trace = <<>>
    /\ hist = [level |-> 0, gameOver |-> FALSE, bucketFill |-> 0,
               isGameOverTriggered |-> FALSE,
               levelIndex |-> 0, isGameOver |-> FALSE, bucketFillCount |-> 0,
               resets |-> 0]

\* animate: update() ends with the win condition; then the page's statistics
Animate(count) ==
    /\ pc = "animating"
    /\ calls < PageMaxFrames
    /\ calls' = calls + 1
    /\ last2' = Called("update")
    /\ LET over == hist.isGameOver \/ count > FullBucket
           fire == over /\ ~hist.isGameOverTriggered
       IN hist' = [hist EXCEPT !.bucketFillCount = count,
                               !.isGameOver = over,
                               !.isGameOverTriggered = @ \/ fire,
                               !.gameOver = @ \/ fire,
                               !.bucketFill = count]
    /\ UNCHANGED <<fNumX, fNumY, cellType, grid, particles, totalTime, pc, dtArg, trace,
                   iter, count0>>

\* handleReset: loadLevel(level) and setGameOver(false); the effect does not run
\* again, the level has not changed
HandleReset ==
    /\ pc = "animating"
    /\ last2' = Called("loadLevel")
    /\ hist' = [hist EXCEPT !.levelIndex = hist.level,
                            !.isGameOver = FALSE,
                            !.bucketFillCount = 0,
                            !.gameOver = FALSE,
                            !.resets = Min(@ + 1, 2)]
    /\ UNCHANGED <<fNumX, fNumY, cellType, grid, particles, totalTime, pc, dtArg, trace,
                   iter, calls, count0>>

\* handleNextLevel, the button of the overlay: below the last level the level
\* changes and the effect runs again (isGameOverTriggered = false, a new
\* simulator, loadLevel(level)); on the last level the page is left
HandleNextLevel ==
    /\ pc = "animating"
    /\ hist.gameOver
    /\ last2' = Called("loadLevel")
    /\ IF hist.level < LastLevel
       THEN /\ hist' = [hist EXCEPT !.level = @ + 1,
                                    !.gameOver = FALSE,
                                    !.isGameOverTriggered = FALSE,
                                    !.levelIndex = hist.level + 1,
                                    !.isGameOver = FALSE,
                                    !.bucketFillCount = 0,
                                    !.resets = 0]
            /\ pc' = pc
       ELSE /\ hist' = hist
            /\ pc' = "left"
    /\ UNCHANGED <<fNumX, fNumY, cellType, grid, particles, totalTime, dtArg, trace,
                   iter, calls, count0>>

NextPage ==
    \/ \E count \in PageFills : Animate(count)
    \/ HandleReset
    \/ HandleNextLevel

SpecPage == InitPage /\ [][NextPage]_vars

----------------------------------------------------------------------------
(* separateParticles and calculateParticleDensity on three particles placed  *)
(* anywhere, the particle loop of the pass taken one visit at a time.  The   *)
(* hash is local to the call: the history keeps it.                          *)

InitCloud ==
    \E a \in CloudPoints : \E b \in CloudPoints \ {a} : \E c \in CloudPoints \ {a, b} :
        /\ Constructed(CloudGridN, CloudGridN,
                       <<Moving(a, CloudVel), Moving(b, CloudVel), Moving(c, CloudVel)>>)
        /\ pc = "separate"
        /\ trace = <<>>
        /\ hist = [entry |-> <<>>]

\* separateParticles(): firstHead, nextParticle allocated and filled
CloudFill ==
    /\ pc = "separate"
    /\ pc' = "scan"
    /\ iter' = 0
    /\ hist' = [entry |-> particles, hash |-> BuildHash(particles),
                visited |-> -1, pre |-> particles]
    /\ UNCHANGED <<fNumX, fNumY, cellType, grid, particles, totalTime, dtArg, trace,
                   calls, last2, count0>>

\* the body of "for (i = 0; i < particles.length; i++)" for i = iter
CloudVisit ==
    /\ pc = "scan"
    /\ iter < Len(particles)
    /\ iter' = iter + 1
    /\ particles' = SepCells(particles, iter, particles[iter + 1].x \div h,
                             particles[iter + 1].y \div h, 0, hist.hash)
    /\ hist' = [hist EXCEPT !.visited = iter, !.pre = particles]
    /\ UNCHANGED <<fNumX, fNumY, cellType, grid, totalTime, pc, dtArg, trace, calls,
                   last2, count0>>

\* separateParticles() returns
CloudDone ==
    /\ pc = "scan"
    /\ iter >= Len(particles)
    /\ pc' = "density"
    /\ iter' = 0
    /\ trace' = Append(trace, "separate")
    /\ UNCHANGED <<fNumX, fNumY, cellType, grid, particles, totalTime, dtArg, calls,
                   last2, count0, hist>>

\* calculateParticleDensity() on the particles where they are
CloudDensity ==
    /\ pc = "density"
    /\ pc' = "idle"
    /\ trace' = Append(trace, "density")
    /\ pDensity' = calculateParticleDensity(particles)
    /\ UNCHANGED <<fNumX, fNumY, cellType, u, v, du, dv, uNew, vNew, uWeight, vWeight,
                   particles, totalTime, dtArg, iter, calls, last2, count0, hist>>

NextCloud == CloudFill \/ CloudVisit \/ CloudDone \/ CloudDensity

SpecCloud == InitCloud /\ [][NextCloud]_vars

----------------------------------------------------------------------------
(* One particle at an arbitrary position touching the grids: the splat of   *)
(* its velocity, the density splat, the sample and the spatial-hash fill.   *)

\* the four slots of stencil st lie inside an array of n elements
SlotsInside(st, n) ==
    \A k \in {st.idx, st.idx + 1, st.idx + st.cols, st.idx + st.cols + 1} :
        0 <= k /\ k < n

InitStencil ==
    \E nx \in StencilDims : \E ny \in StencilDims :
        /\ Constructed(nx, ny, <<>>)
        /\ pc = "transfer"
        /\ trace = <<>>
        /\ hist = [touched |-> FALSE]

\* the grid accesses made for a particle at (x, y): splatToGrid on u and v,
\* splatToScalarGrid on pDensity, sampleGrid on u (a read outside the array gives
\* undefined: no value), the bucket of the hash fill
Touch(x, y) ==
    /\ pc = "transfer"
    /\ pc' = "idle"
    /\ trace' = Append(trace, "touch")
    /\ LET su == Stencil(x, y, 0, 1, fNumX + 1, fNumY)
           sv == Stencil(x, y, 1, 0, fNumX, fNumY + 1)
           sd == Stencil(x, y, 1, 1, fNumX, fNumY)
           ru == splatToGrid(u, uWeight, x, y, StencilVal, 0, 1, fNumX + 1, fNumY)
           rv == splatToGrid(v, vWeight, x, y, StencilVal, 1, 0, fNumX, fNumY + 1)
       IN /\ u' = ru.grid
          /\ uWeight' = ru.weight
          /\ v' = rv.grid
          /\ vWeight' = rv.weight
          /\ pDensity' = splatToScalarGrid(pDensity, x, y, 1, 1, 1, fNumX, fNumY)
          /\ hist' = [touched |-> TRUE, x |-> x, y |-> y,
                      su |-> su, sv |-> sv, sd |-> sd,
                      sample |-> IF SlotsInside(su, (fNumX + 1) * fNumY)
                                 THEN <<sampleGrid(ru.grid, x, y, 0, 1, fNumX + 1, fNumY)>>
                                 ELSE <<>>,
                      cIdx |-> ClampedCell(x, fNumX) + ClampedCell(y, fNumY) * fNumX]
    /\ UNCHANGED <<fNumX, fNumY, cellType, du, dv, uNew, vNew, particles, totalTime,
                   dtArg, iter, calls, last2, count0>>

NextStencil == \E x \in StencilCoords : \E y \in StencilCoords : Touch(x, y)

SpecStencil == InitStencil /\ [][NextStencil]_vars

----------------------------------------------------------------------------
(* WaterMazeSim (src/unnamed/part_004): levels and door clicks.  The maze   *)
(* keeps its cells in cellType, its columns and rows in fNumX and fNumY.   *)

EMPTY == 0
WALL == 1
WATER == 2
DOOR_CLOSED == 3
DOOR_OPEN == 4

\* cellSize, in px
cellSize == 4

\* the canvas of the maze, in px
MazeWidth == 600
MazeHeight == 400

\* Math.ceil(extent / cellSize)
MazeCount(extent) == (extent + cellSize - 1) \div cellSize

\* the fillRect calls of loadLevel(index), in call order: <<x, y, w, h, type>>
LevelRects(index, cx, cy) ==
    <<<<0, 0, cx, 2, WALL>>, <<0, cy - 2, cx, 2, WALL>>,
      <<0, 0, 2, cy, WALL>>, <<cx - 2, 0, 2, cy, WALL>>>>
    \o (IF index = 0
        THEN <<<<cx \div 2, 20, 20, 20, WATER>>,
               <<0, cy \div 2, cx, 2, WALL>>,
               <<cx \div 2, cy \div 2, 10, 2, DOOR_CLOSED>>,
               <<0, cy \div 2, cx, 2, WALL>>,
               <<cx \div 2, cy \div 2, 10, 2, DOOR_CLOSED>>,
               <<cx \div 2 - 25, cy - 20, 2, 18, WALL>>,
               <<cx \div 2 + 23, cy - 20, 2, 18, WALL>>>>
        ELSE <<<<0, 0, 20, 20, WATER>>,
               <<0, cy \div 2, cx, 2, WALL>>,
               <<0, cy \div 5, cx, 2, WALL>>,
               <<cx \div 6, cy \div 5, 10, 2, DOOR_CLOSED>>,
               <<cx \div 2, cy \div 2, 10, 2, DOOR_CLOSED>>,
               <<cx \div 2 - 25, cy - 20, 2, 18, WALL>>,
               <<cx \div 2 + 23, cy - 20, 2, 18, WALL>>>>)

InRect(r, i, j) == r[1] <= i /\ i < r[1] + r[3] /\ r[2] <= j /\ j < r[2] + r[4]

\* grid.fill(EMPTY), then the fillRect calls: the last rectangle over a cell wins
loadLevel(index, cx, cy) ==
    LET rects == LevelRects(index, cx, cy)
    IN [c \in 0 .. cx * cy - 1 |->
          LET over == {n \in 1 .. Len(rects) : InRect(rects[n], c % cx, c \div cx)}
          IN IF over = {} THEN EMPTY
             ELSE rects[CHOOSE n \in over : \A m \in over : m <= n][5]]

\* the cells (i, j) of the grid with cx - r <= i <= cx + r and cy - r <= j <= cy + r
ClickBlock(cx, cy, r) ==
    {j * fNumX + i : i \in {n \in cx - r .. cx + r : n >= 0 /\ n < fNumX},
                     j \in {n \in cy - r .. cy + r : n >= 0 /\ n < fNumY}}

\* the loop body of toggleDoor over the cells of the block
RECURSIVE OpenDoors(_, _)
OpenDoors(g, cells) ==
    IF cells = {} THEN g
    ELSE LET idx == CHOOSE c \in cells : TRUE
         IN OpenDoors(IF g[idx] = DOOR_CLOSED THEN [g EXCEPT ![idx] = DOOR_OPEN] ELSE g,
                      cells \ {idx})

\* toggleDoor: every DOOR_CLOSED cell of the 5 x 5 block around the clicked cell
\* becomes DOOR_OPEN
toggleDoor(g, worldX, worldY) ==
    LET cx == worldX \div cellSize
        cy == worldY \div cellSize
        r == 2
    IN OpenDoors(g, ClickBlock(cx, cy, r))

\* new WaterMazeSim(width, height) and loadLevel(index); the fluid solver's arrays
\* are not part of the maze
InitMaze ==
    \E index \in MazeLevels :
        /\ fNumX = MazeCount(MazeWidth)
        /\ fNumY = MazeCount(MazeHeight)
        /\ cellType = loadLevel(index, MazeCount(MazeWidth), MazeCount(MazeHeight))
        /\ hist = [level |-> index]
        /\ pc = "idle"
        /\ u = <<>> /\ v = <<>> /\ du = <<>> /\ dv = <<>>
        /\ uNew = <<>> /\ vNew = <<>> /\ uWeight = <<>> /\ vWeight = <<>>
        /\ pDensity = <<>>
        /\ particles = <<>>
        /\ totalTime = 0 /\ dtArg = 0 /\ iter = 0 /\ calls = 0
        /\ trace = <<>> /\ last2 = <<>> /\ count0 = 0

\* handleClick: toggleDoor(x, y); the history keeps the grid before the click and
\* the clicked cell
ToggleDoor(worldX, worldY) ==
    /\ pc = "idle"
    /\ calls < MazeMaxClicks
    /\ calls' = calls + 1
    /\ last2' = Called("toggleDoor")
    /\ cellType' = toggleDoor(cellType, worldX, worldY)
    /\ hist' = [level |-> hist.level, before |-> cellType,
                cell |-> (worldX \div cellSize) + (worldY \div cellSize) * fNumX]
    /\ UNCHANGED <<fNumX, fNumY, grid, particles, totalTime, pc, dtArg, trace, iter,
                   count0>>

NextMaze == \E pt \in MazeClicks : ToggleDoor(pt[1], pt[2])

SpecMaze == InitMaze /\ [][NextMaze]_vars

----------------------------------------------------------------------------
(* WaterMazeSim.update(): the bottom-up scan of the grid.  cellType holds    *)
(* the grid, the history levelIndex, isGameOver and bucketFillCount.  The    *)
(* scan state is the grid, the updated marks and the count so far.  The      *)
(* draws of Math.random() are inputs of the call: one for the direction of   *)
(* every row, one for every choice between left and right.                   *)

PourMaxUpdates == 5

\* const flowRate = 5
flowRate == 5

\* canvases of the simulator: <<width, height>> in px
PourCanvases == {<<88, 160>>}

\* targetZone of update(), by levelIndex
targetZone(levelIndex, cols, rows) ==
    CASE levelIndex \in {0, 1} -> [x |-> cols \div 2 - 25, y |-> rows - 20, w |-> 50, h |-> 20]
      [] levelIndex = 2 -> [x |-> 10, y |-> rows - 20, w |-> 30, h |-> 20]
      [] levelIndex = 3 -> [x |-> cols \div 2 - 20, y |-> rows - 20, w |-> 40, h |-> 20]
      [] OTHER -> [x |-> 0, y |-> 0, w |-> cols, h |-> rows]

InZone(z, x, y) == x >= z.x /\ x < z.x + z.w /\ y >= z.y /\ y < z.y + z.h

\* physics treats DOOR_OPEN the same as EMPTY
Passable(t) == t = EMPTY \/ t = DOOR_OPEN

\* move(from, to)
move(s, from, to) ==
    [s EXCEPT !.grid = [@ EXCEPT ![to] = s.grid[from], ![from] = EMPTY],
              !.updated = @ \cup {to}]

\* the sideways loops of updateWater: the farthest of the flowRate cells on one
\* side that is reached over passable cells only, or -1
SlideTo(g, idx, x, cols, dir) ==
    LET free == {i \in 1 .. flowRate :
                    \A k \in 1 .. i : /\ x + dir * k >= 0
                                      /\ x + dir * k < cols
                                      /\ Passable(g[idx + dir * k])}
    IN IF free = {} THEN -1 ELSE idx + dir * Cardinality(free)

\* updateWater(x, y, idx); coin is the outcome of Math.random() < 0.5
updateWater(s, x, y, idx, cols, rows, coin) ==
    IF y >= rows - 1 THEN s
    ELSE LET g == s.grid
             belowIdx == idx + cols
             canLeft == x > 0 /\ Passable(g[belowIdx - 1])
             canRight == x < cols - 1 /\ Passable(g[belowIdx + 1])
             moveL == SlideTo(g, idx, x, cols, -1)
             moveR == SlideTo(g, idx, x, cols, 1)
         IN IF Passable(g[belowIdx]) THEN move(s, idx, belowIdx)
            ELSE IF canLeft /\ canRight
                 THEN move(s, idx, IF coin THEN belowIdx - 1 ELSE belowIdx + 1)
            ELSE IF canLeft THEN move(s, idx, belowIdx - 1)
            ELSE IF canRight THEN move(s, idx, belowIdx + 1)
            ELSE IF moveL # -1 /\ moveR # -1 THEN move(s, idx, IF coin THEN moveL ELSE moveR)
            ELSE IF moveL # -1 THEN move(s, idx, moveL)
            ELSE IF moveR # -1 THEN move(s, idx, moveR)
            ELSE s

\* the body of the inner loop of update() for the cell (x, y)
ScanCell(s, x, y, zone, cols, rows, coin) ==
    LET idx == y * cols + x
        counted == IF s.grid[idx] = WATER /\ InZone(zone, x, y)
                   THEN [s EXCEPT !.count = @ + 1] ELSE s
    IN IF idx \in s.updated THEN counted
       ELSE IF s.grid[idx] = WATER THEN updateWater(counted, x, y, idx, cols, rows, coin)
       ELSE counted

\* for (let x = startX; x !== endX; x += stepX); the count is never negative, the
\* test makes the scan state of a cell a value before the next cell is visited
RECURSIVE ScanRow(_, _, _, _, _, _, _, _, _)
ScanRow(s, x, endX, stepX, y, zone, cols, rows, coin) ==
    IF x = endX THEN s
    ELSE LET t == ScanCell(s, x, y, zone, cols, rows, coin)
         IN IF t.count >= 0
            THEN ScanRow(t, x + stepX, endX, stepX, y, zone, cols, rows, coin)
            ELSE s

\* for (let y = this.rows - 1; y >= 0; y--)
RECURSIVE ScanRows(_, _, _, _, _, _, _)
ScanRows(s, y, zone, cols, rows, ltr, coin) ==
    IF y < 0 THEN s
    ELSE LET t == ScanRow(s, IF ltr THEN 0 ELSE cols - 1, IF ltr THEN cols ELSE -1,
                          IF ltr THEN 1 ELSE -1, y, zone, cols, rows, coin)
         IN IF t.count >= 0
            THEN ScanRows(t, y - 1, zone, cols, rows, ltr, coin)
            ELSE s

\* update() up to the win condition: the grid and bucketFillCount it leaves
update(g, levelIndex, cols, rows, ltr, coin) ==
    ScanRows([grid |-> g, updated |-> {}, count |-> 0], rows - 1,
             targetZone(levelIndex, cols, rows), cols, rows, ltr, coin)

\* new WaterMazeSim(width, height): loadLevel(0)
InitPour ==
    \E cv \in PourCanvases :
        /\ fNumX = MazeCount(cv[1])
        /\ fNumY = MazeCount(cv[2])
        /\ cellType = loadLevel(0, MazeCount(cv[1]), MazeCount(cv[2]))
        /\ hist = [levelIndex |-> 0, isGameOver |-> FALSE, bucketFillCount |-> 0]
        /\ pc = "idle"
        /\ u = <<>> /\ v = <<>> /\ du = <<>> /\ dv = <<>>
        /\ uNew = <<>> /\ vNew = <<>> /\ uWeight = <<>> /\ vWeight = <<>>
        /\ pDensity = <<>>
        /\ particles = <<>>
        /\ totalTime = 0 /\ dtArg = 0 /\ iter = 0 /\ calls = 0
        /\ trace = <<>> /\ last2 = <<>> /\ count0 = 0

\* update(), the win condition included
Update(ltr, coin) ==
    /\ pc = "idle"
    /\ calls < PourMaxUpdates
    /\ calls' = calls + 1
    /\ last2' = Called("update")
    /\ LET s == update(cellType, hist.levelIndex, fNumX, fNumY, ltr, coin)
       IN /\ cellType' = s.grid
          /\ hist' = [hist EXCEPT !.bucketFillCount = s.count,
                                  !.isGameOver = @ \/ s.count > FullBucket]
    /\ UNCHANGED <<fNumX, fNumY, grid, particles, totalTime, pc, dtArg, trace, iter,
                   count0>>

NextPour == \E ltr \in BOOLEAN : \E coin \in BOOLEAN : Update(ltr, coin)

SpecPour == InitPour /\ [][NextPour]_vars

----------------------------------------------------------------------------
(* Properties *)

LastCall == IF last2 = <<>> THEN "none" ELSE last2[Len(last2)]

\* integrate() has returned and nothing was called since
AfterIntegrate == pc = "idle" /\ LastCall = "integrate"

\* inside integrate(), the wall clamp done
PostClamp == pc \in {"transfer", "wave", "snapshot", "solve", "blend"}

InBounds(p) ==
    /\ buffer <= p.x /\ p.x <= fNumX * h - buffer
    /\ buffer <= p.y /\ p.y <= fNumY * h - buffer

\* the four faces of every SOLID cell are 0
SolidFacesZero ==
    \A j \in 0 .. fNumY - 1 : \A i \in 0 .. fNumX - 1 :
        SolidCell(i, j) =>
            /\ u[i + j * (fNumX + 1)] = 0
            /\ u[i + 1 + j * (fNumX + 1)] = 0
            /\ v[i + j * fNumX] = 0
            /\ v[i + (j + 1) * fNumX] = 0

\* C1: no call adds or removes a particle: in every state, also inside integrate(),
\* the list is as long as it was after construction.
C1_ParticleCount == Len(particles) = count0

C1_Witness ==
    /\ AfterIntegrate
    /\ last2 = <<"addExternalForce", "integrate">>
    /\ count0 >= 2
    /\ Len(particles) = count0

\* C2: from the wall clamp to the return of integrate(), and as long as nothing else
\* is called, every particle lies in [buffer, fNumX*h - buffer] x [buffer, fNumY*h - buffer].
C2_InBounds ==
    (PostClamp \/ AfterIntegrate) => \A k \in 1 .. Len(particles) : InBounds(particles[k])

\* integrate() returned; the separation pass had displaced a particle that the clamp
\* then had to bring back from outside the bounds
C2_Witness ==
    /\ AfterIntegrate
    /\ \E k \in 1 .. Len(particles) :
          /\ hist.separated[k].x # hist.advected[k].x
          /\ ~InBounds(hist.separated[k])
          /\ InBounds(particles[k])

\* C3: a cell is SOLID exactly when it lies on the outer ring, every other cell is
\* non-solid, and no step changes a cell's classification or the grid dimensions.
C3_RingOnly ==
    /\ DOMAIN cellType = 0 .. fNumX * fNumY - 1
    /\ \A j \in 0 .. fNumY - 1 : \A i \in 0 .. fNumX - 1 :
          (cellType[i + j * fNumX] = SOLID)
              <=> (i = 0 \/ i = fNumX - 1 \/ j = 0 \/ j = fNumY - 1)

C3_Classification ==
    /\ []C3_RingOnly
    /\ [][fNumX' = fNumX /\ fNumY' = fNumY /\ cellType' = cellType]_vars

\* integrate, addExternalForce and reset have all been called
C3_Witness ==
    /\ pc = "idle"
    /\ calls = 3
    /\ totalTime > 0
    /\ last2 = <<"addExternalForce", "reset">>
    /\ C3_RingOnly
    /\ \E c \in DOMAIN cellType : cellType[c] # SOLID

\* C4: right after transferParticlesToGrid (and the density splat that follows it),
\* the four faces of every SOLID cell are exactly 0.
C4_SolidFacesAfterTransfer == pc = "wave" => SolidFacesZero

\* the splat had left a non-zero velocity on a face of a SOLID cell
C4_Witness ==
    /\ pc = "wave"
    /\ \E k \in DOMAIN u : UFaceOfSolid(k) /\ NormalizedU(particles)[k] # 0
    /\ \E k \in DOMAIN v : VFaceOfSolid(k) /\ NormalizedV(particles)[k] # 0
    /\ SolidFacesZero

\* the faces of SOLID cells other than the wave paddle's are 0
SolidFacesZeroButPaddle ==
    /\ \A k \in DOMAIN u : (UFaceOfSolid(k) /\ k \notin PaddleFaces) => u[k] = 0
    /\ \A k \in DOMAIN v : VFaceOfSolid(k) => v[k] = 0

\* C5: as amended.  From boundary enforcement to the return of integrate(), every face
\* of a SOLID cell is exactly 0 except the paddle faces u(1, j), 1 <= j < 0.7*fNumY;
\* from the paddle forcing on, these hold the forced value uForce(totalTime), and the
\* pressure relaxation and the blend change neither.
C5_SolidFacesButPaddle ==
    /\ (pc \in {"wave", "snapshot", "solve", "blend"} \/ AfterIntegrate) =>
          SolidFacesZeroButPaddle
    /\ (pc \in {"snapshot", "solve", "blend"} \/ AfterIntegrate) =>
          \A k \in PaddleFaces : u[k] = uForce(totalTime)

\* integrate() returned, the relaxation changed the grid, the paddle value is not 0
C5_Witness ==
    /\ AfterIntegrate
    /\ u # du
    /\ uForce(totalTime) # 0
    /\ \A k \in PaddleFaces : UFaceOfSolid(k) /\ u[k] = uForce(totalTime)
    /\ SolidFacesZeroButPaddle

\* C5 as written: when integrate() has returned every face of a SOLID cell is 0.
C5_Original == AfterIntegrate => SolidFacesZero

PhaseIndex(ph) == CHOOSE n \in 1 .. Len(PhaseOrder) : PhaseOrder[n] = ph

\* the phases run so far are exactly those before pc, each once and in order; the
\* snapshot is the grid after the paddle forcing and before the first sweep; the grid
\* is rebuilt from the clamped particle positions
C6_Order ==
    /\ pc # "idle" => trace = SubSeq(PhaseOrder, 1, PhaseIndex(pc) - 1)
    /\ pc = "idle" => trace = IF totalTime = 0 THEN <<>> ELSE PhaseOrder
    /\ (pc = "solve" /\ iter = 0) =>
          /\ du = u /\ dv = v
          /\ \A k \in PaddleFaces : du[k] = uForce(totalTime)
    /\ pc = "wave" =>
          /\ particles = ClampWalls(hist.separated)
          /\ u = transferParticlesToGrid(particles).u
          /\ v = transferParticlesToGrid(particles).v
          /\ pDensity = calculateParticleDensity(particles)
    /\ pc = "clamp" => particles = separateParticles(hist.advected)
    /\ pc = "solve" => iter <= numIters

\* the work integrate() still has to do before it returns: the phases from pc on,
\* the relaxation counted sweep by sweep
Remaining ==
    IF pc = "idle" THEN 0
    ELSE (Len(PhaseOrder) - PhaseIndex(pc) + 1) * (numIters + 1)
            - (IF pc = "solve" THEN iter ELSE 0)

\* C6: an integrate() call that has started runs to completion in bounded work (every
\* step inside the call belongs to the call and strictly lowers the work that remains,
\* and the call is never stuck), and runs the eight phases once each in the order
\* advect, separate, clamp, transfer, wave, snapshot, solve, blend; the snapshot is the
\* grid after the paddle forcing and before the first sweep, and the grid is rebuilt
\* from the clamped particles.
C6_PhasesInOrder ==
    /\ []C6_Order
    /\ [][pc # "idle" =>
            /\ calls' = calls
            /\ totalTime' = totalTime
            /\ Remaining' < Remaining]_vars

\* a call has completed in which the clamp moved a particle and the solve changed
\* the grid after the snapshot
C6_Witness ==
    /\ AfterIntegrate
    /\ trace = PhaseOrder
    /\ u # du
    /\ \E k \in 1 .. Len(particles) : ~InBounds(hist.separated[k])

floorY == fNumY * h - buffer

\* C7: as amended.  A particle that is beyond the floor bound after the separation
\* pass has y = fNumY*h - buffer and v = 0 right after the wall clamp; y stays there
\* until integrate() returns, and the vertical velocity it returns with is the blend
\* 0.95 * (vPIC - vOld) + 0.05 * vPIC of the grid samples at its position.
C7_FloorClamp ==
    \A k \in 1 .. Len(hist.separated) :
        hist.separated[k].y > floorY =>
            /\ pc = "transfer" => particles[k].y = floorY /\ particles[k].v = 0
            /\ (PostClamp \/ AfterIntegrate) => particles[k].y = floorY
            /\ AfterIntegrate =>
                  LET vPIC == sampleGrid(v, particles[k].x, particles[k].y, 1, 0,
                                         fNumX, fNumY + 1)
                      vOld == sampleGrid(dv, particles[k].x, particles[k].y, 1, 0,
                                         fNumX, fNumY + 1)
                  IN particles[k].v = Blend(vPIC - vOld, vPIC, flipPercent)

\* the particle's downward velocity carried it past the floor in this sub-step
CarriedPastFloor(k) ==
    /\ hist.entry[k].y <= floorY
    /\ hist.advected[k].v > 0
    /\ hist.advected[k].y > floorY

\* integrate() returned; a particle carried past the floor sits on the floor bound
\* with a vertical velocity that the grid feedback made non-zero
C7_Witness ==
    /\ AfterIntegrate
    /\ \E k \in 1 .. Len(particles) :
          /\ CarriedPastFloor(k)
          /\ hist.separated[k].y > floorY
          /\ particles[k].y = floorY
          /\ particles[k].v # 0

\* C7 as written: when integrate() returns, a particle carried past the floor has
\* y = fNumY*h - buffer and vertical velocity 0.
C7_Original ==
    AfterIntegrate =>
        \A k \in 1 .. Len(particles) :
            CarriedPastFloor(k) => particles[k].y = floorY /\ particles[k].v = 0

\* C8: the gravity and integration loop gives every particle v + gravity*dt, leaves u,
\* and advances the position by dt * (u, new v); a particle the clamp does not touch
\* still has that velocity after the advect phase.
C8_Gravity ==
    \A k \in 1 .. Len(hist.entry) :
        LET e == hist.entry[k]
            a == hist.advected[k]
        IN /\ a.v = e.v + gravity * dtArg
           /\ a.u = e.u
           /\ a.x = e.x + dtArg * e.u
           /\ a.y = e.y + dtArg * (e.v + gravity * dtArg)
           /\ (pc = "transfer" /\ InBounds(hist.separated[k])) =>
                 /\ particles[k].v = e.v + gravity * dtArg
                 /\ particles[k].u = e.u

\* the advect phase is over, and a particle that had both velocity components
\* non-zero at entry touched no wall
C8_Witness ==
    /\ pc = "transfer"
    /\ dtArg = 2
    /\ \E k \in 1 .. Len(particles) :
          /\ hist.entry[k].u # 0
          /\ hist.entry[k].v # 0
          /\ InBounds(hist.separated[k])
          /\ particles[k].v = hist.entry[k].v + gravity * dtArg

\* C9: two particles alone in the grid at a distance d < h: one separation pass moves
\* each by exactly (h - d) / 2 along the line that joins them, in opposite directions
\* (so they end exactly h apart: the correction is applied once, not once per visit),
\* and leaves their velocities.
C9_SeparationPass ==
    LastCall = "separateParticles" =>
        LET a == hist.entry[1]
            b == hist.entry[2]
            a2 == particles[1]
            b2 == particles[2]
            dx == a.x - b.x
            dy == a.y - b.y
            d == CHOOSE n \in 1 .. h - 1 : n * n = dx * dx + dy * dy
            mx == a2.x - a.x
            my == a2.y - a.y
        IN /\ 2 * d * mx = dx * (h - d)
           /\ 2 * d * my = dy * (h - d)
           /\ 4 * (mx * mx + my * my) = (h - d) * (h - d)
           /\ b2.x - b.x = -mx
           /\ b2.y - b.y = -my
           /\ (a2.x - b2.x) * (a2.x - b2.x) + (a2.y - b2.y) * (a2.y - b2.y) = h * h
           /\ a2.u = a.u /\ a2.v = a.v /\ b2.u = b.u /\ b2.v = b.v

\* the pass ran on particles at (0, 0) and (0, h/2) and left them at (0, -h/4)
\* and (0, 3h/4)
C9_Witness ==
    /\ LastCall = "separateParticles"
    /\ hist.entry = <<Particle(0, 0), Particle(0, h \div 2)>>
    /\ particles = <<Particle(0, -(h \div 4)), Particle(0, (3 * h) \div 4)>>

\* the faces a bilinear stencil reads with a non-zero weight
StencilFaces(st) ==
    {k \in {st.idx, st.idx + 1, st.idx + st.cols, st.idx + st.cols + 1} :
        \/ k = st.idx /\ st.w00 > 0
        \/ k = st.idx + 1 /\ st.w10 > 0
        \/ k = st.idx + st.cols /\ st.w01 > 0
        \/ k = st.idx + st.cols + 1 /\ st.w11 > 0}

\* no face that the u or v sample at p reads belongs to a SOLID cell
AwayFromWalls(p) ==
    /\ \A k \in StencilFaces(Stencil(p.x, p.y, 0, 1, fNumX + 1, fNumY)) : ~UFaceOfSolid(k)
    /\ \A k \in StencilFaces(Stencil(p.x, p.y, 1, 0, fNumX, fNumY + 1)) : ~VFaceOfSolid(k)

InNonSolidCell(p) == ~SolidCell(ClampedCell(p.x, fNumX), ClampedCell(p.y, fNumY))

PicDone == pc = "idle" /\ trace = <<"transfer", "pic">>

\* C11: as amended.  All particles carry one velocity c: after the particle-to-grid
\* transfer, the PIC-only sample (flip ratio 0) returns c in both components for
\* every particle whose u and v stencils read no face of a SOLID cell, and leaves
\* the positions.
C11_UniformRoundTrip ==
    PicDone =>
        \A k \in 1 .. Len(particles) :
            /\ particles[k].x = hist.entry[k].x
            /\ particles[k].y = hist.entry[k].y
            /\ AwayFromWalls(hist.entry[k]) =>
                  /\ particles[k].u = hist.entry[k].u
                  /\ particles[k].v = hist.entry[k].v

\* the round trip returned a velocity with both components non-zero to a particle
\* away from the walls, while the other particle sits next to a wall
C11_Witness ==
    /\ PicDone
    /\ AwayFromWalls(hist.entry[1])
    /\ ~AwayFromWalls(hist.entry[2])
    /\ hist.entry[1].u # 0 /\ hist.entry[1].v # 0
    /\ particles[1].u = hist.entry[1].u
    /\ particles[1].v = hist.entry[1].v

\* C11 as written: the sample returns c for every particle in a non-solid cell.
C11_Original ==
    PicDone =>
        \A k \in 1 .. Len(particles) :
            InNonSolidCell(hist.entry[k]) =>
                /\ particles[k].u = hist.entry[k].u
                /\ particles[k].v = hist.entry[k].v

InteriorCells ==
    {c \in 0 .. fNumX * fNumY - 1 :
        /\ 1 <= c % fNumX /\ c % fNumX <= fNumX - 2
        /\ 1 <= c \div fNumX /\ c \div fNumX <= fNumY - 2
        /\ cellType[c] # SOLID}

\* (uRight - uLeft) + (vTop - vBot) of cell c
Divergence(uu, vv, c) ==
    LET i == c % fNumX
        j == c \div fNumX
    IN uu[i + 1 + j * (fNumX + 1)] - uu[i + j * (fNumX + 1)]
          + (vv[i + (j + 1) * fNumX] - vv[i + j * fNumX])

RECURSIVE SumOver(_, _, _)
SumOver(S, uu, vv) ==
    IF S = {} THEN 0
    ELSE LET c == CHOOSE x \in S : TRUE
         IN Abs(Divergence(uu, vv, c)) + SumOver(S \ {c}, uu, vv)

\* the sum of |divergence| over the interior non-solid cells
SumAbsDiv == SumOver(InteriorCells, u, v)

\* the next sweep does not raise the sum of |divergence|
C12_Monotone ==
    (pc = "solve" /\ iter < numIters) =>
        LET r == solveSweep(u, v, pDensity)
        IN SumOver(InteriorCells, r.u, r.v) <= SumAbsDiv

\* after the last sweep the average |divergence| is below 0.001 px/s, which is 10
\* velocity units of SpecRelax
C12_FinalBelow ==
    (pc = "solve" /\ iter = numIters) => SumAbsDiv < 10 * Cardinality(InteriorCells)

\* C12 as written: with no paddle forcing and no external force, the average absolute
\* divergence over the interior non-solid cells goes down from each of the 30 sweeps
\* to the next and is below 1e-3 after the last one.
C12_Original == C12_Monotone /\ C12_FinalBelow

ValidDimensions == hist.width > 0 /\ hist.height > 0 /\ hist.spacing > 0

\* C13 as written: the constructor returns a simulator for every positive width,
\* height and cell spacing, and signals a failure whenever one of them is zero or
\* negative.
C13_Original ==
    pc # "new" =>
        /\ ValidDimensions => pc = "idle"
        /\ ~ValidDimensions => pc = "RangeError"

\* the half of C13 that the constructor meets: positive arguments give a simulator
C13_PositiveReturns == (pc # "new" /\ ValidDimensions) => pc = "idle"

\* the squared distance of the k-th particle, before the call, from the point pushed
ForceDistSq(k) ==
    (hist.entry[k].x - hist.x) * (hist.entry[k].x - hist.x)
        + (hist.entry[k].y - hist.y) * (hist.entry[k].y - hist.y)

\* d in hundredths, rounded down: D with D^2 <= 10000 d^2 < (D + 1)^2
ForceDist100(k) ==
    CHOOSE D \in 0 .. 100 * hist.radius :
        D * D <= 10000 * ForceDistSq(k) /\ 10000 * ForceDistSq(k) < (D + 1) * (D + 1)

\* m is c * (1 - d / radius) to the nearest lattice value
ScaledBy(m, c, k) ==
    2 * Abs(100 * hist.radius * m - c * (100 * hist.radius - ForceDist100(k)))
        <= 100 * hist.radius

C14_Velocities ==
    LastCall = "addExternalForce" =>
        /\ Len(particles) = Len(hist.entry)
        /\ \A k \in 1 .. Len(particles) :
              /\ particles[k].x = hist.entry[k].x
              /\ particles[k].y = hist.entry[k].y
              /\ ForceDistSq(k) >= hist.radius * hist.radius => particles[k] = hist.entry[k]
              /\ ForceDistSq(k) < hist.radius * hist.radius =>
                    /\ 0 < 100 * hist.radius - ForceDist100(k)
                    /\ 100 * hist.radius - ForceDist100(k) <= 100 * hist.radius
                    /\ ScaledBy(particles[k].u - hist.entry[k].u, hist.vx, k)
                    /\ ScaledBy(particles[k].v - hist.entry[k].v, hist.vy, k)

\* C14: addExternalForce(x, y, vx, vy, radius), radius > 0, adds (vx, vy) * (1 - d/radius)
\* to the velocity of every particle at distance d < radius of (x, y), the factor being
\* in (0, 1]; it leaves the velocity of every other particle, every position, every
\* grid array, the classification and the particle count.
C14_ExternalForce ==
    /\ []C14_Velocities
    /\ [][/\ grid' = grid
          /\ cellType' = cellType
          /\ <<fNumX', fNumY', totalTime'>> = <<fNumX, fNumY, totalTime>>
          /\ Len(particles') = Len(particles)]_vars

\* the call changed the first particle by a factor strictly between 0 and 1 in both
\* components and left the second one, which is at d >= radius
C14_Witness ==
    /\ LastCall = "addExternalForce"
    /\ hist.vx # 0 /\ hist.vy # 0
    /\ 0 < ForceDistSq(1) /\ ForceDistSq(1) < hist.radius * hist.radius
    /\ particles[1].u # hist.entry[1].u
    /\ particles[1].u # hist.entry[1].u + hist.vx
    /\ particles[1].v # hist.entry[1].v
    /\ ForceDistSq(2) >= hist.radius * hist.radius
    /\ particles[2] = hist.entry[2]

\* C22: solveIncompressibility changes no face velocity incident to a solid cell:
\* through the sweeps and after them every such face holds the value it had in the
\* snapshot taken right before the first sweep, so the paddle faces u(1, j) hold
\* the forced value when integrate returns.
C22_SolidFacesKept ==
    /\ (pc \in {"solve", "blend"} \/ AfterIntegrate) =>
          /\ \A k \in DOMAIN u : UFaceOfSolid(k) => u[k] = du[k]
          /\ \A k \in DOMAIN v : VFaceOfSolid(k) => v[k] = dv[k]
    /\ AfterIntegrate =>
          \A j \in 1 .. fNumY - 1 : 10 * j < 7 * fNumY => u[getUIndex(1, j)] = uForce(totalTime)

\* the 30 sweeps are over and changed faces between fluid cells; a paddle face holds
\* its non-zero forced value
C22_Witness ==
    /\ pc = "blend"
    /\ \E k \in DOMAIN u : ~UFaceOfSolid(k) /\ u[k] # du[k]
    /\ \E k \in DOMAIN v : ~VFaceOfSolid(k) /\ v[k] # dv[k]
    /\ u[getUIndex(1, 1)] # 0
    /\ u[getUIndex(1, 1)] = du[getUIndex(1, 1)]

\* arr[0] + ... + arr[n - 1]
RECURSIVE SumArray(_, _)
SumArray(arr, n) == IF n = 0 THEN 0 ELSE arr[n - 1] + SumArray(arr, n - 1)

\* calculateParticleDensity() has returned
DensityDone == pc = "idle" /\ trace = <<"separate", "density">>

\* C23: after calculateParticleDensity the density field sums to the number of
\* particles (the unit is 1 / (h * h) particle): every particle contributes total
\* weight 1 wherever it is, positions clamped at the grid edge included, and every
\* density value is >= 0.
C23_DensitySum ==
    DensityDone =>
        /\ SumArray(pDensity, fNumX * fNumY) = h * h * Len(particles)
        /\ \A c \in DOMAIN pDensity : pDensity[c] >= 0

\* the density of three particles, one outside the grid, one spread over four cells
C23_Witness ==
    /\ DensityDone
    /\ Len(particles) = 3
    /\ \E k \in 1 .. 3 : particles[k].x < 0 \/ particles[k].y > fNumY * h
    /\ Cardinality({c \in DOMAIN pDensity : pDensity[c] > 0}) >= 5

\* the sum of coordinate f over the particle list
RECURSIVE SumCoord(_, _, _)
SumCoord(ps, f, n) == IF n = 0 THEN 0 ELSE ps[n][f] + SumCoord(ps, f, n - 1)

\* C24: a separation pass moves particles by equal-and-opposite pairwise
\* displacements only: after every visit of the pass and at its end the sum of all
\* x and the sum of all y are what they were at the call, and no velocity and no
\* particle count changed.
C24_SumsKept ==
    (pc \in {"scan", "density", "idle"} /\ "hash" \in DOMAIN hist) =>
        /\ Len(particles) = Len(hist.entry)
        /\ SumCoord(particles, "x", Len(particles)) = SumCoord(hist.entry, "x", Len(hist.entry))
        /\ SumCoord(particles, "y", Len(particles)) = SumCoord(hist.entry, "y", Len(hist.entry))
        /\ \A k \in 1 .. Len(particles) :
              particles[k].u = hist.entry[k].u /\ particles[k].v = hist.entry[k].v

\* the pass is over and moved all three particles, on both axes
C24_Witness ==
    /\ pc = "density"
    /\ \A k \in 1 .. Len(particles) : particles[k].x # hist.entry[k].x
    /\ \E k \in 1 .. Len(particles) : particles[k].y # hist.entry[k].y
    /\ particles[1].v # 0

\* the hash of the running or finished pass is in the history
HashBuilt == pc \in {"scan", "density", "idle"} /\ "hash" \in DOMAIN hist

\* the particle indices met from index n on by following nextParticle, in order; at
\* most "left" links are followed
RECURSIVE Chain(_, _, _)
Chain(n, nextParticle, left) ==
    IF n = -1 \/ left = 0 THEN <<>>
    ELSE <<n>> \o Chain(nextParticle[n], nextParticle, left - 1)

\* the walk from index n ends at the sentinel -1 within "left" links
RECURSIVE EndsAtSentinel(_, _, _)
EndsAtSentinel(n, nextParticle, left) ==
    IF n = -1 THEN TRUE
    ELSE IF left = 0 THEN FALSE
    ELSE EndsAtSentinel(nextParticle[n], nextParticle, left - 1)

\* the bucket of particle k at fill time
FillCell(k) ==
    ClampedCell(hist.entry[k + 1].x, fNumX) + ClampedCell(hist.entry[k + 1].y, fNumY) * fNumX

\* C21: after the hash fill every chain reaches the sentinel -1 without repeating an
\* index, the chain of bucket c holds precisely the particles whose clamped cell at
\* fill time is c, so every particle index occurs in exactly one chain, once; the
\* hash depends on nothing but the particle positions at the call.
C21_HashChains ==
    HashBuilt =>
        LET n == Len(hist.entry)
            fh == hist.hash.firstHead
            np == hist.hash.nextParticle
        IN /\ DOMAIN fh = 0 .. fNumX * fNumY - 1
           /\ DOMAIN np = 0 .. n - 1
           /\ \A c \in DOMAIN fh :
                 LET ch == Chain(fh[c], np, n + 1)
                 IN /\ EndsAtSentinel(fh[c], np, n)
                    /\ \A a, b \in DOMAIN ch : ch[a] = ch[b] => a = b
                    /\ {ch[a] : a \in DOMAIN ch} = {k \in 0 .. n - 1 : FillCell(k) = c}
           /\ \A k \in 0 .. n - 1 :
                 Cardinality({c \in DOMAIN fh :
                                \E a \in DOMAIN Chain(fh[c], np, n + 1) :
                                    Chain(fh[c], np, n + 1)[a] = k}) = 1

\* a bucket whose chain holds two particles, one of them outside the grid
C21_Witness ==
    /\ HashBuilt
    /\ \E c \in DOMAIN hist.hash.firstHead :
          /\ Len(Chain(hist.hash.firstHead[c], hist.hash.nextParticle, 4)) >= 2
          /\ \E k \in 0 .. Len(hist.entry) - 1 :
                FillCell(k) = c /\ hist.entry[k + 1].x < 0

\* the buckets read by the 3x3 scan of a particle at p
ScannedCells(p) ==
    {nx + ny * fNumX :
        nx \in {n \in (p.x \div h) - 1 .. (p.x \div h) + 1 : n >= 0 /\ n < fNumX},
        ny \in {n \in (p.y \div h) - 1 .. (p.y \div h) + 1 : n >= 0 /\ n < fNumY}}

\* q is closer to p than the radius h and not at p
InReach(p, q) ==
    LET distSq == (p.x - q.x) * (p.x - q.x) + (p.y - q.y) * (p.y - q.y)
    IN distSq < h * h /\ distSq > 0

\* C25 as written: when particle i is visited, every other particle closer than h
\* is in a bucket the 3x3 scan reads, wherever the particles are.
C25_Original ==
    (pc \in {"scan", "density", "idle"} /\ "hash" \in DOMAIN hist /\ hist.visited >= 0) =>
        \A j \in 0 .. Len(hist.pre) - 1 :
            (j # hist.visited /\ InReach(hist.pre[hist.visited + 1], hist.pre[j + 1])) =>
                FillCell(j) \in ScannedCells(hist.pre[hist.visited + 1])

\* what the scan guarantees: a neighbour closer than h is found when both particles
\* are inside the grid at their visit and the neighbour still is where it was hashed
C25_FoundInsideGrid ==
    (pc \in {"scan", "density", "idle"} /\ "hash" \in DOMAIN hist /\ hist.visited >= 0) =>
        \A j \in 0 .. Len(hist.pre) - 1 :
            LET p == hist.pre[hist.visited + 1]
                q == hist.pre[j + 1]
            IN (/\ j # hist.visited
                /\ InReach(p, q)
                /\ InGrid(p.x, p.y, fNumX) /\ InGrid(q.x, q.y, fNumX)
                /\ q.x \div h = hist.entry[j + 1].x \div h
                /\ q.y \div h = hist.entry[j + 1].y \div h) =>
                    FillCell(j) \in ScannedCells(p)

\* the pass is over: two particles left of the grid, closer than h, were not moved
C25_Missed ==
    /\ pc = "density"
    /\ particles = hist.entry
    /\ InReach(particles[1], particles[2])

\* C26 as written: after reset() the state that later integrate calls depend on is
\* that of a freshly constructed simulator: velocities 0, grid arrays 0 and the wave
\* clock totalTime 0, so the next integrate(dt) forces the paddle with uForce(dt).
C26_Original ==
    (pc = "idle" /\ LastCall = "reset") =>
        /\ totalTime = 0
        /\ \A k \in 1 .. Len(particles) : particles[k].u = 0 /\ particles[k].v = 0
        /\ \A k \in DOMAIN u : u[k] = 0 /\ du[k] = 0 /\ uWeight[k] = 0
        /\ \A k \in DOMAIN v : v[k] = 0 /\ dv[k] = 0 /\ vWeight[k] = 0
        /\ \A c \in DOMAIN pDensity : pDensity[c] = 0

\* the wave clock after reset(): it only keeps what the integrate calls added
C26_ClockKept ==
    [][(pc = "idle" /\ LastCall' = "reset" /\ calls' = calls + 1) =>
          totalTime' = totalTime]_vars

\* no integrate call since construction or since the last reset()
FreshlySeeded == pc = "idle" /\ (calls = 0 \/ LastCall = "reset")

\* C27 as written: right after construction and right after reset() every seeded
\* particle lies within [buffer, domain - buffer] on both axes, for every jitter
\* value and every grid size.
C27_Original ==
    FreshlySeeded => \A k \in 1 .. Len(particles) : InBounds(particles[k])

\* what the seeding guarantees: every seed is within the bounds on the x axis and
\* between the ceiling bound and the top of the floor row on the y axis
C27_SeedsAboveFloorRow ==
    FreshlySeeded =>
        \A k \in 1 .. Len(particles) :
            /\ buffer <= particles[k].x /\ particles[k].x <= fNumX * h - buffer
            /\ buffer <= particles[k].y /\ particles[k].y < (fNumY - 1) * h

\* C28 as the spec words it: after a frame that found a NaN coordinate and called
\* reset(), a callback of render is pending again
C28_Original ==
    hist.frame = "reset" => pc = "scheduled"

\* what the code does: the frame that called reset() returned before
\* requestAnimationFrame(render), no callback is pending and no frame follows
C28_LoopStopped ==
    hist.frame = "reset" <=> pc = "stopped"

\* C29 as the spec words it: whenever the simulator's isGameOver is true after
\* a frame, the page's gameOver flag is set and the overlay is shown
C29_Original ==
    (pc = "animating" /\ hist.isGameOver) => hist.gameOver

\* what the code does: the overlay follows the first win after the level was
\* entered; a win with the overlay hidden is a win after Reset Level, with
\* isGameOverTriggered still set
C29_FirstWinOnly ==
    (pc = "animating" /\ hist.isGameOver /\ ~hist.gameOver)
        => (hist.isGameOverTriggered /\ hist.resets > 0)

\* the WATER cells of the grid, and those inside the bucket zone of the level
TotalWater == Cardinality({c \in DOMAIN cellType : cellType[c] = WATER})

WaterInZone ==
    Cardinality({c \in DOMAIN cellType :
                    /\ cellType[c] = WATER
                    /\ InZone(targetZone(hist.levelIndex, fNumX, fNumY),
                              c % fNumX, c \div fNumX)})

\* C30 as the spec words it: after an update() the count is at most the number
\* of WATER cells in the zone and in the grid, and isGameOver is set only with
\* more than 200 WATER cells in the zone
C30_Original ==
    LastCall = "update" =>
        /\ hist.bucketFillCount <= WaterInZone
        /\ hist.bucketFillCount <= TotalWater
        /\ hist.isGameOver => WaterInZone > FullBucket

\* what the code does: a WATER cell is counted where the scan finds it, and
\* again where a sideways slide has put it ahead of the scan, so the count is
\* at most twice the number of WATER cells, which update() never changes
C30_CountedTwiceAtMost ==
    LastCall = "update" => hist.bucketFillCount <= 2 * TotalWater

\* a win with no more than 200 WATER cells in the whole grid
C30_FalseWin ==
    hist.isGameOver /\ TotalWater <= FullBucket


\* the faces u(1, j) with 1 <= j < 0.7 * fNumY
PaddleBand == {getUIndex(1, j) : j \in {n \in 1 .. fNumY : 10 * n < 7 * fNumY}}

\* the step that runs the paddle loop
WaveStep == pc = "wave" /\ pc' = "snapshot"

\* the step that enters integrate(dt)
IntegrateStep == pc = "idle" /\ pc' = "separate"

PostU(p) == sampleGrid(u, p.x, p.y, 0, 1, fNumX + 1, fNumY)
PostV(p) == sampleGrid(v, p.x, p.y, 1, 0, fNumX, fNumY + 1)
PreU(p) == sampleGrid(du, p.x, p.y, 0, 1, fNumX + 1, fNumY)
PreV(p) == sampleGrid(dv, p.x, p.y, 1, 0, fNumX, fNumY + 1)

\* new = flipRatio * (old + post - pre) + (1 - flipRatio) * post, to the nearest
\* lattice value (flipRatio in percent)
IsBlend(new, old, post, pre, flipRatio) ==
    2 * Abs(100 * new - (flipRatio * (old + post - pre) + (100 - flipRatio) * post)) <= 100

\* the step that runs transferGridToParticles(0.95)
BlendStep == pc = "blend" /\ pc' = "idle"

\* C19: in the grid-to-particle phase each particle's new velocity component is
\* flipRatio*(old + post - pre) + (1 - flipRatio)*post with flipRatio = 0.95, post
\* and pre the bilinear samples of the post-solve grid and of the snapshot at the
\* particle position; where post = pre it is 0.95*old + 0.05*post; positions, the
\* particle count and the grids are unchanged by the phase.
C19_FlipPicBlend ==
    [][BlendStep =>
        /\ Len(particles') = Len(particles)
        /\ grid' = grid
        /\ \A k \in 1 .. Len(particles) :
              LET old == particles[k]
                  new == particles'[k]
              IN /\ new.x = old.x /\ new.y = old.y
                 /\ IsBlend(new.u, old.u, PostU(old), PreU(old), flipPercent)
                 /\ IsBlend(new.v, old.v, PostV(old), PreV(old), flipPercent)
                 /\ PostU(old) = PreU(old) =>
                       2 * Abs(100 * new.u - (95 * old.u + 5 * PostU(old))) <= 100
                 /\ PostV(old) = PreV(old) =>
                       2 * Abs(100 * new.v - (95 * old.v + 5 * PostV(old))) <= 100]_vars

\* integrate() has returned; one particle got a new velocity from samples the solve
\* changed, another one from samples the solve left alone
C19_Witness ==
    /\ AfterIntegrate
    /\ Len(particles) = Len(hist.separated)
    /\ \E k \in 1 .. Len(particles) :
          LET old == ClampWalls(hist.separated)[k]
          IN /\ PostV(old) # PreV(old)
             /\ PostV(old) # 0
             /\ old.v # 0
             /\ particles[k].v # old.v
             /\ IsBlend(particles[k].v, old.v, PostV(old), PreV(old), flipPercent)
    /\ \E k \in 1 .. Len(particles) :
          LET old == ClampWalls(hist.separated)[k]
          IN /\ PostU(old) = PreU(old)
             /\ old.v # 0
             /\ particles[k].x = old.x /\ particles[k].y = old.y

\* array.length
Length(arr) == Cardinality(DOMAIN arr)

\* the four bilinear weights of stencil st are in [0, 1] (unit h * h)
WeightsInUnit(st) ==
    \A w \in {st.w00, st.w10, st.w01, st.w11} : 0 <= w /\ w <= h * h

\* C20: on every grid with at least 2 cells per axis, for every particle position,
\* far outside the domain included, the indices read or written by splatToGrid,
\* splatToScalarGrid, sampleGrid and the spatial-hash fill are inside their arrays
\* and the four bilinear weights are each in [0, 1].
C20_IndicesInBounds ==
    hist.touched =>
        /\ fNumX >= 2 /\ fNumY >= 2
        /\ SlotsInside(hist.su, Length(u)) /\ WeightsInUnit(hist.su)
        /\ SlotsInside(hist.sv, Length(v)) /\ WeightsInUnit(hist.sv)
        /\ SlotsInside(hist.sd, Length(pDensity)) /\ WeightsInUnit(hist.sd)
        /\ hist.sample # <<>>
        /\ 0 <= hist.cIdx /\ hist.cIdx < fNumX * fNumY

\* a particle far outside the smallest grid, beyond two different walls
C20_Witness ==
    /\ hist.touched
    /\ fNumX = 2 /\ fNumY = 2
    /\ hist.x = -1000000 /\ hist.y = 1000000
    /\ SlotsInside(hist.su, Length(u))
    /\ \E k \in DOMAIN u : u[k] # 0

\* the cell visited last and the state of its four faces
VisitedCell == hist.i + hist.j * fNumX
NonSolid(c) == IF cellType[c] = SOLID THEN 0 ELSE 1
OpenNeighbours ==
    NonSolid(VisitedCell - 1) + NonSolid(VisitedCell + 1)
        + NonSolid(VisitedCell - fNumX) + NonSolid(VisitedCell + fNumX)

\* max(0, density - restDensity) * gain, in velocity units
DensityTerm(c) ==
    IF pDensity[c] > restDensity
    THEN RDiv(2 * kDensity * (pDensity[c] - restDensity), 25 * h * h) ELSE 0

AdjustedDivBefore == Divergence(hist.u, hist.v, VisitedCell) - DensityTerm(VisitedCell)
AdjustedDivAfter == Divergence(u, v, VisitedCell) - DensityTerm(VisitedCell)

\* the faces of the visited cell: index, array, sign of the flux, neighbour cell
LeftFace == hist.i + hist.j * (fNumX + 1)
RightFace == LeftFace + 1
BotFace == VisitedCell
TopFace == VisitedCell + fNumX

\* the four faces moved by flux f where the neighbour is non-solid, nothing else
FluxApplied(f) ==
    /\ u = [k \in DOMAIN hist.u |->
              IF k = LeftFace /\ NonSolid(VisitedCell - 1) = 1 THEN hist.u[k] - f
              ELSE IF k = RightFace /\ NonSolid(VisitedCell + 1) = 1 THEN hist.u[k] + f
              ELSE hist.u[k]]
    /\ v = [k \in DOMAIN hist.v |->
              IF k = BotFace /\ NonSolid(VisitedCell - fNumX) = 1 THEN hist.v[k] - f
              ELSE IF k = TopFace /\ NonSolid(VisitedCell + fNumX) = 1 THEN hist.v[k] + f
              ELSE hist.v[k]]

\* C16: one visit of an interior cell with s >= 1 non-solid neighbours and adjusted
\* divergence a # 0 adds flux = -(a * overRelaxation) / s (to the nearest lattice
\* value) to the right and top faces and subtracts it from the left and bottom
\* faces, only where the neighbour is non-solid, and leaves the adjusted divergence
\* (1 - overRelaxation) * a up to that rounding; a cell with a = 0 or s = 0 is left
\* unchanged.  On the lattice |a| < 1e-5 is a = 0.
C16_CellVisit ==
    hist.i > 0 =>
        LET a == AdjustedDivBefore
            s == OpenNeighbours
        IN IF a = 0 \/ s = 0 THEN u = hist.u /\ v = hist.v
           ELSE /\ \E f \in -2 * Abs(a) .. 2 * Abs(a) :
                     /\ Abs(10 * s * f + overRelaxation10 * a) <= 5 * s
                     /\ FluxApplied(f)
                /\ Abs(10 * AdjustedDivAfter - (10 - overRelaxation10) * a) <= 5 * s

\* a visited cell with a solid neighbour and a non-solid one whose faces moved
C16_Witness ==
    /\ hist.i > 0
    /\ OpenNeighbours \in {2, 3}
    /\ Abs(AdjustedDivBefore) >= 10
    /\ pDensity[VisitedCell] > restDensity
    /\ u # hist.u /\ v # hist.v

\* the second simulator's integrate(dt) has returned
RerunDone == pc = "idle" /\ "first" \in DOMAIN hist

\* C17: two simulators of the same dimensions that agree on the particle list, the
\* accumulated time and dt but hold different contents in u, v, the weight arrays,
\* du, dv and the density field have identical particles and identical grid arrays
\* after integrate(dt).
C17_SameOutcome ==
    RerunDone =>
        /\ particles = hist.first.particles
        /\ u = hist.first.u
        /\ v = hist.first.v
        /\ du = hist.first.du
        /\ dv = hist.first.dv
        /\ uWeight = hist.first.uWeight
        /\ vWeight = hist.first.vWeight
        /\ pDensity = hist.first.pDensity

\* both runs are over, the second started from patterned arrays, and the run moved
\* the particles and left a flow on the grid
C17_Witness ==
    /\ RerunDone
    /\ hist.seed # <<0, 0>>
    /\ particles # hist.entry
    /\ \E k \in DOMAIN u : u[k] # 0
    /\ \E k \in DOMAIN pDensity : pDensity[k] > 0

\* C15 as written: a click on a closed door opens it, and a click on an open door
\* closes it again.
C15_Original ==
    LastCall = "toggleDoor" =>
        /\ hist.before[hist.cell] = DOOR_CLOSED => cellType[hist.cell] = DOOR_OPEN
        /\ hist.before[hist.cell] = DOOR_OPEN => cellType[hist.cell] = DOOR_CLOSED

\* what toggleDoor does: a click opens a closed door and leaves every other cell
\* it hits as it was, an open door included
C15_OpensOnly ==
    LastCall = "toggleDoor" =>
        /\ hist.before[hist.cell] = DOOR_CLOSED => cellType[hist.cell] = DOOR_OPEN
        /\ hist.before[hist.cell] # DOOR_CLOSED =>
              cellType[hist.cell] = hist.before[hist.cell]

IsZero(arr) == \A k \in DOMAIN arr : arr[k] = 0

\* C10: after reset() the particle count is that of construction, every particle sits
\* on its seed position of the construction lattice up to the jitter and has velocity
\* 0, every grid array is all zeros, and the classification is the ring; the same
\* holds after a second reset() in a row.
C10_AfterReset ==
    (pc = "idle" /\ LastCall = "reset") =>
        /\ Len(particles) = count0
        /\ Len(particles) = Len(Lattice(fNumX, fNumY))
        /\ \A k \in 1 .. Len(particles) :
              /\ particles[k].x - Lattice(fNumX, fNumY)[k][1] \in JitterSet
              /\ particles[k].y - Lattice(fNumX, fNumY)[k][2]
                    = particles[k].x - Lattice(fNumX, fNumY)[k][1]
              /\ particles[k].u = 0
              /\ particles[k].v = 0
        /\ IsZero(u) /\ IsZero(v) /\ IsZero(uWeight) /\ IsZero(vWeight)
        /\ IsZero(uNew) /\ IsZero(vNew) /\ IsZero(du) /\ IsZero(dv)
        /\ IsZero(pDensity)
        /\ C3_RingOnly

\* integrate() ran, then reset() was called twice in a row
C10_Witness ==
    /\ pc = "idle"
    /\ totalTime > 0
    /\ last2 = <<"reset", "reset">>
    /\ Len(particles) = count0
    /\ IsZero(u) /\ IsZero(du)

====
